---- MODULE Spec2Model ----
(***************************************************************************)
(* A model of the ELF reader of elf-lib (src/src/reader/elf_reader.c).     *)
(*                                                                         *)
(* Numbers.  A uint8_t or uint16_t is an integer.  A uint32_t is an        *)
(* integer below 2^31 (the files of the model hold no larger one).  A      *)
(* uint64_t is the tuple of its 8 bytes, least significant first, so that  *)
(* arithmetic modulo 2^64 is exact.  A buffer is a tuple of bytes in       *)
(* memory order.                                                           *)
(***************************************************************************)
EXTENDS Integers, Sequences, FiniteSets

VARIABLES
    host,   \* byte order of the machine the library was built for
    ctx,    \* the caller-allocated reader context (InternalElfCtx)
    inits,  \* how many times the caller has called elf_init
    pc,     \* position of the calling program: "idle" or "returned"
    last,   \* the call that returned last: its arguments, result and outputs
    writer  \* the writer context of the program (ElfwCtx) and what it points to

vars == <<host, ctx, inits, pc, last, writer>>

----------------------------------------------------------------------------
(* Result codes (ElfResult).                                               *)

ELF_OK == "ELF_OK"
ELF_UNINIT == "ELF_UNINIT"
ELF_BAD_MAGIC == "ELF_BAD_MAGIC"
ELF_BAD_VERSION == "ELF_BAD_VERSION"
ELF_BAD_CLASS == "ELF_BAD_CLASS"
ELF_BAD_ENDIANNESS == "ELF_BAD_ENDIANNESS"
ELF_BAD_ARG == "ELF_BAD_ARG"
ELF_BAD_INDX == "ELF_BAD_INDX"
ELF_NOT_FOUND == "ELF_NOT_FOUND"
ELF_BUFFER_OVERFLOW == "ELF_BUFFER_OVERFLOW"
ELF_IO_EOF == "ELF_IO_EOF"
ELF_IO_ERROR == "ELF_IO_ERROR"
ELF_BAD_SIZE == "ELF_BAD_SIZE"
ELF_BAD_HEADER == "ELF_BAD_HEADER"
ELF_BAD_FORMAT == "ELF_BAD_FORMAT"

(* Enumerators and structure sizes.                                        *)

EV_CURRENT == 1
ELFCLASSNONE == 0
ELFCLASS32 == 1
ELFCLASS64 == 2
ELFDATANONE == 0
ELFDATA2LSB == 1
ELFDATA2MSB == 2
ET_REL == 1
ET_EXEC == 2
SHN_UNDEF == 0
SHN_XINDEX == 65535
SHT_NULL == 0
SHT_PROGBITS == 1
SHT_SYMTAB == 2
SHT_STRTAB == 3
SHT_RELA == 4
SHT_NOBITS == 8
SHT_REL == 9
SHT_DYNSYM == 11
SHT_GROUP == 17
SHT_RELR == 19
SHF_ALLOC == 2
SHF_COMPRESSED == 2048
STT_NOTYPE == 0
STT_OBJECT == 1
STT_FUNC == 2

EI_NIDENT == 16
SizeofElf32Header == 52
SizeofElf64Header == 64
SizeofElf32SecHeader == 40
SizeofElf64SecHeader == 64
SizeofElf32ProHeader == 32
SizeofElf64ProHeader == 56
SizeofElf32SymEntry == 16
SizeofElf64SymEntry == 24

\* sizeof(Elf32Rela) and the like are declared in no file of the repository.
SizeofElf32Rel == 8
SizeofElf32Rela == 12
SizeofElf32Relr == 4
SizeofElf64Rel == 16
SizeofElf64Rela == 24
SizeofElf64Relr == 8

----------------------------------------------------------------------------
(* Integer types.                                                          *)

RECURSIVE LE(_, _)
\* The w bytes of n, least significant first.
LE(n, w) == IF w = 0 THEN <<>> ELSE <<n % 256>> \o LE(n \div 256, w - 1)

RECURSIVE Val(_)
\* The number a tuple of bytes (least significant first) stands for.
Val(bs) == IF bs = <<>> THEN 0 ELSE bs[1] + 256 * Val(Tail(bs))

Reverse(s) == [i \in 1..Len(s) |-> s[Len(s) + 1 - i]]

\* (uint64_t) n
U64(n) == LE(n, 8)

Zero64 == U64(0)

\* Whether a uint64_t is below 2^24, and then its value.
Small64(u) == \A i \in 4..8 : u[i] = 0

RECURSIVE AddBytes(_, _, _)
AddBytes(a, b, carry) ==
    IF a = <<>> THEN <<>>
    ELSE LET s == a[1] + b[1] + carry
         IN  <<s % 256>> \o AddBytes(Tail(a), Tail(b), s \div 256)

\* a + b on uint64_t: the carry out of the top byte is dropped.
Add64(a, b) == AddBytes(a, b, 0)

\* a - b on uint64_t.
Sub64(a, b) == AddBytes(a, [i \in 1..8 |-> 255 - b[i]], 1)

\* a & b and ~a on uint64_t.
AndByte(x, y) ==
    LET bit(v, k) == (v \div (2 ^ k)) % 2
        both(k) == bit(x, k) * bit(y, k) * (2 ^ k)
    IN  both(0) + both(1) + both(2) + both(3) + both(4) + both(5) + both(6) + both(7)
And64(a, b) == [i \in 1..8 |-> AndByte(a[i], b[i])]
Not64(a) == [i \in 1..8 |-> 255 - a[i]]

\* a % b on uint64_t, for operands below 2^24 and b not 0.
Mod64(a, b) == U64(Val(a) % Val(b))

RECURSIVE LtBytes(_, _)
LtBytes(a, b) ==
    IF a = <<>> THEN FALSE
    ELSE LET n == Len(a)
         IN  IF a[n] # b[n] THEN a[n] < b[n]
             ELSE LtBytes(SubSeq(a, 1, n - 1), SubSeq(b, 1, n - 1))

\* a < b, a <= b, a >= b on uint64_t.
Lt64(a, b) == LtBytes(a, b)
Le64(a, b) == ~LtBytes(b, a)
Ge64(a, b) == ~LtBytes(a, b)

RECURSIVE MulBytes(_, _, _)
MulBytes(n, u, carry) ==
    IF u = <<>> THEN <<>>
    ELSE LET s == n * u[1] + carry
         IN  <<s % 256>> \o MulBytes(n, Tail(u), s \div 256)

\* n * u on uint64_t, n a uint32_t (below 2^23 in the model).
Mul64(n, u) == MulBytes(n, u, 0)

\* a / b on uint64_t, for operands below 2^24 (all the model divides).
Div64(a, b) == Val(a) \div Val(b)

\* A bit of a uint64_t flag word: flags & mask # 0, mask a single bit below 2^24.
HasFlag(flags, mask) == (Val(SubSeq(flags, 1, 3)) \div mask) % 2 = 1

----------------------------------------------------------------------------
(* The files the reader is run on.  A file is described by the class and   *)
(* byte order it is laid out in, the header fields that differ from a      *)
(* well-formed header, the section-header fields that differ from a        *)
(* well-formed table, its symbols, the bytes of its .strtab section and    *)
(* the length it is cut to (0: not cut).  Image gives its bytes.           *)

StrTabSize == 8     \* bytes of the .strtab section
MaxSyms == 2        \* symbols of a file, after the null symbol

Zeros(n) == [i \in 1..n |-> 0]
PadTo(s, n) == s \o Zeros(n - Len(s))

\* An integer, or the low w bytes of a uint64_t, in the byte order d.
EncN(n, w, d) == IF d = ELFDATA2MSB THEN Reverse(LE(n, w)) ELSE LE(n, w)
EncU(u, w, d) == IF d = ELFDATA2MSB THEN Reverse(SubSeq(u, 1, w)) ELSE SubSeq(u, 1, w)

\* .shstrtab: "\0.t\0.s\0.r\0.h\0"
ShStrTab == <<0, 46, 116, 0, 46, 115, 0, 46, 114, 0, 46, 104, 0>>

SymSize(cls) == IF cls = ELFCLASS32 THEN SizeofElf32SymEntry ELSE SizeofElf64SymEntry
SecSize(cls) == IF cls = ELFCLASS32 THEN SizeofElf32SecHeader ELSE SizeofElf64SecHeader
ProSize(cls) == IF cls = ELFCLASS32 THEN SizeofElf32ProHeader ELSE SizeofElf64ProHeader
HeadSize(cls) == IF cls = ELFCLASS32 THEN SizeofElf32Header ELSE SizeofElf64Header

\* Layout: header, one program-header slot, .shstrtab, .strtab, .symtab, section headers.
PhOff == SizeofElf64Header
ShStrOff == PhOff + SizeofElf64ProHeader
StrOff == ShStrOff + Len(ShStrTab)
SymOff == StrOff + StrTabSize
ShOff(cls) == SymOff + (1 + MaxSyms) * SymSize(cls)

RECURSIVE Apply(_, _)
\* A record with the fields named in ovs (<<field, value>> pairs) replaced.
Apply(r, ovs) ==
    IF ovs = <<>> THEN r
    ELSE Apply([r EXCEPT ![ovs[1][1]] = ovs[1][2]], Tail(ovs))

RECURSIVE ApplySecs(_, _)
\* A section table with the fields named in ovs (<<index, field, value>>) replaced.
ApplySecs(t, ovs) ==
    IF ovs = <<>> THEN t
    ELSE ApplySecs([t EXCEPT ![ovs[1][1] + 1][ovs[1][2]] = ovs[1][3]], Tail(ovs))

SecsOf(f) ==
    LET sec(name, type, flags, offset, size, link, entsize) ==
            [name |-> name, type |-> type, flags |-> flags, addr |-> 0,
             offset |-> offset, size |-> size, link |-> link, info |-> 0,
             addralign |-> 1, entsize |-> entsize]
    IN  ApplySecs(<<sec(0, SHT_NULL, 0, 0, 0, 0, 0),
                    sec(1, SHT_PROGBITS, 6, ShStrOff, 0, 0, 0),
                    sec(4, SHT_SYMTAB, 0, SymOff, (1 + Len(f.syms)) * SymSize(f.cls), 3,
                        SymSize(f.cls)),
                    sec(7, SHT_STRTAB, 0, StrOff, StrTabSize, 0, 0),
                    sec(10, SHT_STRTAB, 0, ShStrOff, Len(ShStrTab), 0, 0)>>,
                  f.secs)

HeaderOf(f) ==
    Apply([magic4 |-> 70, ei_class |-> f.cls, ei_data |-> f.dat,
           ei_version |-> EV_CURRENT, ei_osabi |-> 3, ei_abiversion |-> 1,
           e_type |-> ET_REL, e_machine |-> 40, e_version |-> EV_CURRENT,
           e_entry |-> 16, e_phoff |-> 0, e_shoff |-> ShOff(f.cls), e_flags |-> 5,
           e_ehsize |-> HeadSize(f.cls), e_phentsize |-> ProSize(f.cls), e_phnum |-> 0,
           e_shentsize |-> SecSize(f.cls), e_shnum |-> Len(SecsOf(f)), e_shstrndx |-> 4],
          f.hdr)

NullSym == [name |-> 0, type |-> STT_NOTYPE, bind |-> 0, shndx |-> SHN_UNDEF,
            value |-> Zero64, size |-> Zero64]

SymsOf(f) == <<NullSym>> \o f.syms

EncHeader(h, cls, d) ==
    LET w == IF cls = ELFCLASS32 THEN 4 ELSE 8
    IN  <<127, 69, 76, h.magic4>> \o <<h.ei_class, h.ei_data, h.ei_version, h.ei_osabi, h.ei_abiversion>>
        \o Zeros(7)
        \o EncN(h.e_type, 2, d) \o EncN(h.e_machine, 2, d) \o EncN(h.e_version, 4, d)
        \o EncN(h.e_entry, w, d) \o EncN(h.e_phoff, w, d) \o EncN(h.e_shoff, w, d)
        \o EncN(h.e_flags, 4, d) \o EncN(h.e_ehsize, 2, d)
        \o EncN(h.e_phentsize, 2, d) \o EncN(h.e_phnum, 2, d)
        \o EncN(h.e_shentsize, 2, d) \o EncN(h.e_shnum, 2, d)
        \o EncN(h.e_shstrndx, 2, d)

EncSec(s, cls, d) ==
    IF cls = ELFCLASS32
    THEN EncN(s.name, 4, d) \o EncN(s.type, 4, d) \o EncN(s.flags, 4, d)
         \o EncN(s.addr, 4, d) \o EncN(s.offset, 4, d) \o EncN(s.size, 4, d)
         \o EncN(s.link, 4, d) \o EncN(s.info, 4, d) \o EncN(s.addralign, 4, d)
         \o EncN(s.entsize, 4, d)
    ELSE EncN(s.name, 4, d) \o EncN(s.type, 4, d) \o EncN(s.flags, 8, d)
         \o EncN(s.addr, 8, d) \o EncN(s.offset, 8, d) \o EncN(s.size, 8, d)
         \o EncN(s.link, 4, d) \o EncN(s.info, 4, d) \o EncN(s.addralign, 8, d)
         \o EncN(s.entsize, 8, d)

EncSym(s, cls, d) ==
    IF cls = ELFCLASS32
    THEN EncN(s.name, 4, d) \o EncU(s.value, 4, d) \o EncU(s.size, 4, d)
         \o <<s.bind * 16 + s.type, 0>> \o EncN(s.shndx, 2, d)
    ELSE EncN(s.name, 4, d) \o <<s.bind * 16 + s.type, 0>> \o EncN(s.shndx, 2, d)
         \o EncU(s.value, 8, d) \o EncU(s.size, 8, d)

RECURSIVE Flat(_)
Flat(ss) == IF ss = <<>> THEN <<>> ELSE ss[1] \o Flat(Tail(ss))

FullImage(f) ==
    LET secs == SecsOf(f)
        syms == SymsOf(f)
    IN  PadTo(EncHeader(HeaderOf(f), f.cls, f.dat), ShStrOff)
        \o ShStrTab
        \o PadTo(f.str, StrTabSize)
        \o PadTo(Flat([i \in 1..Len(syms) |-> EncSym(syms[i], f.cls, f.dat)]),
                 (1 + MaxSyms) * SymSize(f.cls))
        \o Flat([i \in 1..Len(secs) |-> EncSec(secs[i], f.cls, f.dat)])

\* The bytes of the file: the full image, cut to f.cut bytes when f.cut > 0.
ImageOf(f) == IF f.cut > 0 THEN SubSeq(FullImage(f), 1, f.cut) ELSE FullImage(f)

File(cls, dat, hdr, secs, syms, str, cut) ==
    [cls |-> cls, dat |-> dat, hdr |-> hdr, secs |-> secs, syms |-> syms,
     str |-> str, cut |-> cut]

\* .strtab: "\0a\0b\0ab\0"
DefaultStr == <<0, 97, 0, 98, 0, 97, 98, 0>>

Classes == {ELFCLASS32, ELFCLASS64}
Datas == {ELFDATA2LSB, ELFDATA2MSB}

\* Headers: the well-formed one and the ones that break one rule of elf_init.
HeaderOverrides(cls) ==
    LET other == IF cls = ELFCLASS32 THEN ELFCLASS64 ELSE ELFCLASS32
    IN  { <<>>,
          << <<"magic4", 71>> >>,
          << <<"ei_version", 0>> >>,
          << <<"ei_class", ELFCLASSNONE>> >>,
          << <<"ei_class", 3>> >>,
          << <<"ei_data", ELFDATANONE>> >>,
          << <<"ei_data", 3>> >>,
          << <<"e_version", 2>> >>,
          << <<"e_ehsize", HeadSize(other)>> >>,
          << <<"e_phnum", 1>>, <<"e_phoff", PhOff>> >>,
          << <<"e_phnum", 1>> >>,
          << <<"e_phnum", 1>>, <<"e_phoff", PhOff>>, <<"e_phentsize", ProSize(other)>> >>,
          << <<"e_phentsize", ProSize(other)>> >>,
          << <<"e_shentsize", SecSize(other)>> >>,
          << <<"e_shoff", 0>> >>,
          << <<"e_shnum", 0>>, <<"e_shoff", 0>>, <<"e_shstrndx", SHN_UNDEF>> >>,
          << <<"e_shnum", 0>>, <<"e_shoff", 0>>, <<"e_shentsize", 0>> >> }

\* The well-formed header in every class and byte order, each broken header in
\* two of them.
HeaderFiles ==
    { File(cls, dat, <<>>, <<>>, <<>>, DefaultStr, 0) : cls \in Classes, dat \in Datas }
    \cup { File(ELFCLASS32, ELFDATA2MSB, hdr, <<>>, <<>>, DefaultStr, 0) :
             hdr \in HeaderOverrides(ELFCLASS32) }
    \cup { File(ELFCLASS64, ELFDATA2LSB, hdr, <<>>, <<>>, DefaultStr, 0) :
             hdr \in HeaderOverrides(ELFCLASS64) }

\* Files cut short: inside the identification, inside the header, after it.
CutFiles ==
    UNION { { File(cls, ELFDATA2LSB, <<>>, <<>>, <<>>, DefaultStr, cut) :
                cut \in {EI_NIDENT \div 2, EI_NIDENT, SizeofElf32Header, ShOff(cls)} } :
            cls \in Classes }

\* Extended numbering: the count or the name-table index lives in section 0.
ExtHeaders ==
    { << <<"e_shnum", 0>> >>,
      << <<"e_shstrndx", SHN_XINDEX>> >>,
      << <<"e_shnum", 0>>, <<"e_shstrndx", SHN_XINDEX>> >> }

ExtFiles ==
    { File(ELFCLASS64, ELFDATA2LSB, hdr, secs, <<>>, DefaultStr, 0) :
        hdr \in ExtHeaders,
        secs \in { <<>>,
                   << <<0, "size", 5>>, <<0, "link", 4>> >>,
                   << <<0, "size", 5>>, <<0, "link", 4>>, <<0, "type", SHT_PROGBITS>> >> } }
    \cup
    { File(ELFCLASS32, ELFDATA2MSB, hdr, << <<0, "size", 5>>, <<0, "link", 4>> >>, <<>>,
           DefaultStr, 0) : hdr \in ExtHeaders }

\* Section tables with an entry that get_section_header rejects, or may.
SecFiles ==
    { File(cls, ELFDATA2LSB, <<>>, secs, <<>>, DefaultStr, 0) :
        cls \in Classes,
        secs \in { << <<1, "type", SHT_RELA>> >>,
                   << <<1, "type", SHT_GROUP>> >>,
                   << <<1, "flags", SHF_COMPRESSED + SHF_ALLOC>> >>,
                   << <<2, "entsize", 7>> >> } }
    \cup
    { File(cls, ELFDATA2LSB, << <<"e_type", ET_EXEC>> >>, << <<1, "type", SHT_GROUP>> >>,
           <<>>, DefaultStr, 0) : cls \in Classes }
    \cup
    { File(ELFCLASS64, ELFDATA2LSB, <<>>, secs, <<>>, DefaultStr, 0) :
        secs \in { << <<1, "type", SHT_REL>> >>,
                   << <<1, "type", SHT_RELR>> >>,
                   << <<1, "type", SHT_DYNSYM>> >>,
                   << <<1, "type", SHT_NOBITS>>, <<1, "flags", SHF_COMPRESSED>> >>,
                   << <<1, "type", SHT_RELA>>, <<1, "entsize", SizeofElf64Rela>> >> } }

\* String tables: a string longer than the others, a table that is no STRTAB,
\* a table shorter than its bytes, an unterminated table, a string filling it.
StrFiles ==
    { File(f[1], f[2], <<>>, secs, <<>>, str, 0) :
        f \in { <<ELFCLASS32, ELFDATA2MSB>>, <<ELFCLASS64, ELFDATA2LSB>> },
        secs \in { <<>>, << <<3, "type", SHT_PROGBITS>> >>, << <<3, "size", 2>> >>,
                   << <<4, "type", SHT_PROGBITS>> >> },
        str \in { DefaultStr, <<0, 97, 98, 99, 0, 0, 0, 0>> } }
    \cup
    { File(ELFCLASS64, ELFDATA2LSB, <<>>, <<>>, <<>>, str, 0) :
        str \in { <<97, 98, 99, 100, 101, 102, 103, 104>>,
                  <<0, 97, 98, 99, 100, 101, 102, 0>> } }

Sym(name, type, shndx, value, size) ==
    [name |-> name, type |-> type, bind |-> 1, shndx |-> shndx, value |-> value,
     size |-> size]

\* 2^64 - 2 and 2^64 - 1
Top64 == <<254, 255, 255, 255, 255, 255, 255, 255>>
Max64 == <<255, 255, 255, 255, 255, 255, 255, 255>>

SymPool ==
    { Sym(1, STT_FUNC, 1, U64(16), U64(4)),
      Sym(3, STT_NOTYPE, 1, U64(16), Zero64),
      Sym(1, STT_FUNC, SHN_UNDEF, U64(16), U64(4)),
      Sym(3, STT_OBJECT, 1, U64(18), U64(4)),
      Sym(5, STT_NOTYPE, 1, U64(16), U64(8)),
      Sym(5, STT_FUNC, 1, Top64, U64(2)) }

\* A 32-bit file holds the low 4 bytes of a symbol's value and size.
SymPool32 ==
    { Sym(1, STT_FUNC, 1, U64(16), U64(4)),
      Sym(5, STT_NOTYPE, 1, U64(16), U64(8)) }

SymTables(pool) == UNION { [1..n -> pool] : n \in 1..MaxSyms }

SymFiles ==
    { File(ELFCLASS64, ELFDATA2LSB, <<>>, <<>>, syms, DefaultStr, 0) :
        syms \in SymTables(SymPool) }
    \cup
    { File(ELFCLASS32, ELFDATA2MSB, <<>>, <<>>, syms, DefaultStr, 0) :
        syms \in SymTables(SymPool32) }

Files == HeaderFiles \cup CutFiles \cup ExtFiles \cup SecFiles \cup StrFiles \cup SymFiles

Image == [f \in Files |-> ImageOf(f)]

----------------------------------------------------------------------------
(* The byte source: the callback of the examples, over a file.             *)

NULL == "NULL"
file_read_cb == "file_read_cb"

\* One request made of the callback: where, how many bytes, and how many bytes the
\* destination buffer holds.
Fetch(offset, size, cap) == [offset |-> offset, size |-> size, cap |-> cap]

\* file_read_cb(user_ctx, offset, size, buffer), over one of the files above or
\* over a file the writer produced (its bytes): the seek fails on an offset that
\* is negative as an off_t, a short read at the end of the file is IO_EOF.
Callback(user_ctx, offset, size) ==
    LET img == IF "bytes" \in DOMAIN user_ctx THEN user_ctx.bytes ELSE Image[user_ctx]
    IN  IF offset[8] >= 128
        THEN [res |-> ELF_IO_ERROR, data |-> <<>>]
        ELSE IF ~Small64(offset) \/ Val(offset) + size > Len(img)
        THEN [res |-> ELF_IO_EOF, data |-> <<>>]
        ELSE [res |-> ELF_OK, data |-> SubSeq(img, Val(offset) + 1, Val(offset) + size)]

----------------------------------------------------------------------------
(* Byte codec.                                                             *)

host_endianness == host

\* The value of an integer object whose bytes in memory are data (least
\* significant byte first).
Load(data) == IF host_endianness = ELFDATA2LSB THEN data ELSE Reverse(data)

\* (v >> 8) | (v << 8), as a uint16_t
swap16(v) == ((v \div 256) + (v * 256)) % 65536

\* Each byte of v moved to the mirrored place, as the shifts and masks do.
swap32(v) == <<v[4], v[3], v[2], v[1]>>
swap64(v) == <<v[8], v[7], v[6], v[5], v[4], v[3], v[2], v[1]>>

read_16(data, elf_endianness) ==
    LET v == Val(Load(data))
    IN  IF elf_endianness # host_endianness /\ elf_endianness # ELFDATANONE
        THEN swap16(v) ELSE v

\* The uint32_t read, as its 4 bytes (least significant first).
read_32(data, elf_endianness) ==
    LET v == Load(data)
    IN  IF elf_endianness # host_endianness /\ elf_endianness # ELFDATANONE
        THEN swap32(v) ELSE v

\* A 64-bit read that never swaps.
read_64_noswap(data, elf_endianness) == Load(data)

read_64(data, elf_endianness) ==
    LET v == Load(data)
    IN  IF elf_endianness # host_endianness /\ elf_endianness # ELFDATANONE
        THEN swap64(v) ELSE v

\* (uint64_t) of a uint32_t
Zext(v) == v \o <<0, 0, 0, 0>>

\* The w bytes of a structure in buf at byte offset off.
Field(buf, off, w) == SubSeq(buf, off + 1, off + w)

----------------------------------------------------------------------------
(* The reader.  Each function takes the context as a value and returns its *)
(* result code, its outputs and the fetches it made, in order.             *)

validate_ctx(c, ctxNull) ==
    IF ctxNull \/ ~c.initialized THEN ELF_UNINIT ELSE ELF_OK

\* The per-type checks of get_section_header without the test of SHT_GROUP.
SecHeaderCheckNoGroup(c, sh) ==
    LET c32 == c.Class = ELFCLASS32
        rela == IF c32 THEN SizeofElf32Rela ELSE SizeofElf64Rela
        rel == IF c32 THEN SizeofElf32Rel ELSE SizeofElf64Rel
        relr == IF c32 THEN SizeofElf32Relr ELSE SizeofElf64Relr
        sym == IF c32 THEN SizeofElf32SymEntry ELSE SizeofElf64SymEntry
    IN  IF sh.Type = SHT_RELA /\ sh.EntrySize # U64(rela) THEN ELF_BAD_SIZE
        ELSE IF sh.Type = SHT_REL /\ sh.EntrySize # U64(rel) THEN ELF_BAD_SIZE
        ELSE IF sh.Type = SHT_RELR /\ sh.EntrySize # U64(relr) THEN ELF_BAD_SIZE
        ELSE IF (sh.Type = SHT_DYNSYM \/ sh.Type = SHT_SYMTAB) /\ sh.EntrySize # U64(sym)
        THEN ELF_BAD_SIZE
        ELSE IF (HasFlag(sh.Flags, SHF_COMPRESSED) /\ HasFlag(sh.Flags, SHF_ALLOC))
                \/ (HasFlag(sh.Flags, SHF_COMPRESSED) /\ sh.Type = SHT_NOBITS)
        THEN ELF_BAD_FORMAT
        ELSE ELF_OK

\* The per-type checks of get_section_header on a decoded record.
SecHeaderCheck(c, sh) ==
    LET c32 == c.Class = ELFCLASS32
        rela == IF c32 THEN SizeofElf32Rela ELSE SizeofElf64Rela
        rel == IF c32 THEN SizeofElf32Rel ELSE SizeofElf64Rel
        relr == IF c32 THEN SizeofElf32Relr ELSE SizeofElf64Relr
        sym == IF c32 THEN SizeofElf32SymEntry ELSE SizeofElf64SymEntry
    IN  IF sh.Type = SHT_RELA /\ sh.EntrySize # U64(rela) THEN ELF_BAD_SIZE
        ELSE IF sh.Type = SHT_REL /\ sh.EntrySize # U64(rel) THEN ELF_BAD_SIZE
        ELSE IF sh.Type = SHT_RELR /\ sh.EntrySize # U64(relr) THEN ELF_BAD_SIZE
        ELSE IF (sh.Type = SHT_DYNSYM \/ sh.Type = SHT_SYMTAB) /\ sh.EntrySize # U64(sym)
        THEN ELF_BAD_SIZE
        ELSE IF (HasFlag(sh.Flags, SHF_COMPRESSED) /\ HasFlag(sh.Flags, SHF_ALLOC))
                \/ (HasFlag(sh.Flags, SHF_COMPRESSED) /\ sh.Type = SHT_NOBITS)
        THEN ELF_BAD_FORMAT
        ELSE IF sh.Type = SHT_GROUP /\ c.Hdr.Type # ET_REL THEN ELF_BAD_FORMAT
        ELSE ELF_OK

\* The uniform section header decoded from the bytes of a record.
DecodeSecHeader(c, b) ==
    LET e == c.Endianness
    IN  IF c.Class = ELFCLASS32
        THEN [NameIdx |-> Val(read_32(Field(b, 0, 4), e)),
              Type |-> Val(read_32(Field(b, 4, 4), e)),
              Flags |-> Zext(read_32(Field(b, 8, 4), e)),
              Address |-> Zext(read_32(Field(b, 12, 4), e)),
              Offset |-> Zext(read_32(Field(b, 16, 4), e)),
              Size |-> Zext(read_32(Field(b, 20, 4), e)),
              Link |-> Val(read_32(Field(b, 24, 4), e)),
              Info |-> Val(read_32(Field(b, 28, 4), e)),
              Alignment |-> Zext(read_32(Field(b, 32, 4), e)),
              EntrySize |-> Zext(read_32(Field(b, 36, 4), e))]
        ELSE [NameIdx |-> Val(read_32(Field(b, 0, 4), e)),
              Type |-> Val(read_32(Field(b, 4, 4), e)),
              Flags |-> read_64(Field(b, 8, 8), e),
              Address |-> read_64(Field(b, 16, 8), e),
              Offset |-> read_64(Field(b, 24, 8), e),
              Size |-> read_64(Field(b, 32, 8), e),
              Link |-> Val(read_32(Field(b, 40, 4), e)),
              Info |-> Val(read_32(Field(b, 44, 4), e)),
              Alignment |-> read_64(Field(b, 48, 8), e),
              EntrySize |-> read_64(Field(b, 56, 8), e)]

\* get_section_header once the record is decoded into sh.
SectionHeaderDecoded(c, sh, fs) ==
    [res |-> SecHeaderCheck(c, sh), out |-> sh, fetches |-> fs]

\* get_section_header once the record is fetched: r is what the callback
\* returned, fs the fetch.
SectionHeaderFetched(c, sec_header, r, fs) ==
    IF r.res # ELF_OK
    THEN [res |-> r.res, out |-> sec_header, fetches |-> fs]
    ELSE SectionHeaderDecoded(c, DecodeSecHeader(c, PadTo(r.data, SizeofElf64SecHeader)), fs)

\* get_section_header from the fetch of the record at offset on.
SectionHeaderAt(c, sec_header, offset, size) ==
    SectionHeaderFetched(c, sec_header, Callback(c.UserCtx, offset, size),
                         <<Fetch(offset, size, SizeofElf64SecHeader)>>)

\* get_section_header with the index test off by one: idx = SHEntryNum passes.
get_section_header_inclusive(c, ctxNull, idx, sec_header, secNull) ==
    IF validate_ctx(c, ctxNull) # ELF_OK
    THEN [res |-> ELF_UNINIT, out |-> sec_header, fetches |-> <<>>]
    ELSE IF secNull
    THEN [res |-> ELF_BAD_ARG, out |-> sec_header, fetches |-> <<>>]
    ELSE IF idx > c.Hdr.SHEntryNum \/ c.Hdr.SHEntryNum = 0
    THEN [res |-> ELF_BAD_INDX, out |-> sec_header, fetches |-> <<>>]
    ELSE SectionHeaderAt(c, sec_header,
                         Add64(c.Hdr.SecHeadOff, U64(idx * c.Hdr.SHEntrySize)),
                         IF c.Class = ELFCLASS32 THEN SizeofElf32SecHeader
                         ELSE SizeofElf64SecHeader)

\* get_section_header(ctx, idx, sec_header); sec_header is what the caller's
\* structure holds before the call, secNull whether the pointer is NULL.
get_section_header(c, ctxNull, idx, sec_header, secNull) ==
    IF validate_ctx(c, ctxNull) # ELF_OK
    THEN [res |-> ELF_UNINIT, out |-> sec_header, fetches |-> <<>>]
    ELSE IF secNull
    THEN [res |-> ELF_BAD_ARG, out |-> sec_header, fetches |-> <<>>]
    ELSE IF idx >= c.Hdr.SHEntryNum \/ c.Hdr.SHEntryNum = 0
    THEN [res |-> ELF_BAD_INDX, out |-> sec_header, fetches |-> <<>>]
    ELSE SectionHeaderAt(c, sec_header,
                         Add64(c.Hdr.SecHeadOff, U64(idx * c.Hdr.SHEntrySize)),
                         IF c.Class = ELFCLASS32 THEN SizeofElf32SecHeader
                         ELSE SizeofElf64SecHeader)

\* What the caller's structures hold before a call fills them.
SomeSecHeader ==
    [NameIdx |-> 0, Type |-> SHT_NULL, Flags |-> Zero64, Address |-> Zero64,
     Offset |-> Zero64, Size |-> Zero64, Link |-> 0, Info |-> 0,
     Alignment |-> Zero64, EntrySize |-> Zero64]

\* The low 16 bits of a uint64_t and of a uint32_t: the conversion to uint16_t.
Trunc16of64(u) == Val(SubSeq(u, 1, 2))
Trunc16of32(n) == n % 65536

\* elf_init, the detection of the special indexes: r is what
\* get_section_header(ctx, 0, &null_sec) returned.
ElfInitExtended(c, fs, r) ==
    IF r.res # ELF_OK THEN [res |-> r.res, ctx |-> c, fetches |-> fs \o r.fetches]
    ELSE IF r.out.Type # SHT_NULL
    THEN [res |-> ELF_BAD_FORMAT, ctx |-> c, fetches |-> fs \o r.fetches]
    ELSE [res |-> ELF_OK, fetches |-> fs \o r.fetches,
          ctx |-> [c EXCEPT
                     !.Hdr.SHEntryNum = IF @ = SHN_UNDEF THEN Trunc16of64(r.out.Size)
                                        ELSE @,
                     !.Hdr.SecStrIndx = IF @ = SHN_XINDEX THEN Trunc16of32(r.out.Link)
                                        ELSE @,
                     !.initialized = TRUE]]

\* elf_init, the checks on the decoded header.
ElfInitChecks(c, fs) ==
    IF c.Hdr.HeadSize # (IF c.Class = ELFCLASS32 THEN SizeofElf32Header
                         ELSE SizeofElf64Header)
    THEN [res |-> ELF_BAD_SIZE, ctx |-> c, fetches |-> fs]
    ELSE IF c.Hdr.PHEntryNum # 0
            /\ c.Hdr.PHEntrySize # (IF c.Class = ELFCLASS32 THEN SizeofElf32ProHeader
                                    ELSE SizeofElf64ProHeader)
    THEN [res |-> ELF_BAD_SIZE, ctx |-> c, fetches |-> fs]
    ELSE IF c.Hdr.SHEntryNum # 0
            /\ c.Hdr.SHEntrySize # (IF c.Class = ELFCLASS32 THEN SizeofElf32SecHeader
                                    ELSE SizeofElf64SecHeader)
    THEN [res |-> ELF_BAD_SIZE, ctx |-> c, fetches |-> fs]
    ELSE IF c.Hdr.PHEntryNum # 0 /\ c.Hdr.ProHeadOff = Zero64
    THEN [res |-> ELF_BAD_HEADER, ctx |-> c, fetches |-> fs]
    ELSE IF c.Hdr.SHEntryNum # 0 /\ c.Hdr.SecHeadOff = Zero64
    THEN [res |-> ELF_BAD_HEADER, ctx |-> c, fetches |-> fs]
    ELSE IF c.Hdr.SHEntryNum = SHN_UNDEF \/ c.Hdr.SecStrIndx = SHN_XINDEX
    THEN IF c.Hdr.SecHeadOff = Zero64
         THEN [res |-> ELF_BAD_HEADER, ctx |-> c, fetches |-> fs]
         ELSE ElfInitExtended(c, fs, get_section_header(c, FALSE, 0, SomeSecHeader, FALSE))
    ELSE [res |-> ELF_OK, ctx |-> [c EXCEPT !.initialized = TRUE], fetches |-> fs]

\* elf_init, the class-specific fields of the header in header_buff.
ElfInitFields(c, fs, header_buff, e) ==
    IF c.Hdr.Version # EV_CURRENT
    THEN [res |-> ELF_BAD_VERSION, ctx |-> c, fetches |-> fs]
    ELSE IF c.Class = ELFCLASS32
    THEN ElfInitChecks(
           [c EXCEPT
              !.Hdr.Entry = Zext(read_32(Field(header_buff, 24, 4), e)),
              !.Hdr.ProHeadOff = Zext(read_32(Field(header_buff, 28, 4), e)),
              !.Hdr.SecHeadOff = Zext(read_32(Field(header_buff, 32, 4), e)),
              !.Hdr.HeadSize = read_16(Field(header_buff, 40, 2), e),
              !.Hdr.PHEntrySize = read_16(Field(header_buff, 42, 2), e),
              !.Hdr.PHEntryNum = read_16(Field(header_buff, 44, 2), e),
              !.Hdr.SHEntrySize = read_16(Field(header_buff, 46, 2), e),
              !.Hdr.SHEntryNum = read_16(Field(header_buff, 48, 2), e),
              !.Hdr.SecStrIndx = read_16(Field(header_buff, 50, 2), e)], fs)
    ELSE ElfInitChecks(
           [c EXCEPT
              !.Hdr.Entry = read_64(Field(header_buff, 24, 8), e),
              !.Hdr.ProHeadOff = read_64(Field(header_buff, 32, 8), e),
              !.Hdr.SecHeadOff = read_64(Field(header_buff, 40, 8), e),
              !.Hdr.HeadSize = read_16(Field(header_buff, 52, 2), e),
              !.Hdr.PHEntrySize = read_16(Field(header_buff, 54, 2), e),
              !.Hdr.PHEntryNum = read_16(Field(header_buff, 56, 2), e),
              !.Hdr.SHEntrySize = read_16(Field(header_buff, 58, 2), e),
              !.Hdr.SHEntryNum = read_16(Field(header_buff, 60, 2), e),
              !.Hdr.SecStrIndx = read_16(Field(header_buff, 62, 2), e)], fs)

\* elf_init once the full header is asked for: r is what the callback returned.
\* When the fetch failed the decoding is skipped, and the function ends as it
\* does on success.
ElfInitHeader(c, fs, r, e) ==
    IF r.res # ELF_OK
    THEN [res |-> r.res, ctx |-> [c EXCEPT !.initialized = TRUE], fetches |-> fs]
    ELSE ElfInitFields(
           [c EXCEPT !.Hdr.Type = read_16(Field(r.data, 16, 2), e),
                     !.Hdr.Machine = read_16(Field(r.data, 18, 2), e),
                     !.Hdr.Version = Val(read_32(Field(r.data, 20, 4), e))],
           fs, r.data, e)

\* elf_init once the identification is asked for: r is what the callback
\* returned, hdr_info the bytes it gave.
ElfInitIdent(c, fs, r, hdr_info) ==
    IF r.res # ELF_OK THEN [res |-> r.res, ctx |-> c, fetches |-> fs]
    ELSE IF hdr_info[1] # 127 \/ hdr_info[2] # 69 \/ hdr_info[3] # 76 \/ hdr_info[4] # 70
    THEN [res |-> ELF_BAD_MAGIC, ctx |-> c, fetches |-> fs]
    ELSE IF hdr_info[7] # EV_CURRENT
    THEN [res |-> ELF_BAD_VERSION, ctx |-> c, fetches |-> fs]
    ELSE IF hdr_info[5] = ELFCLASSNONE
            \/ (hdr_info[5] # ELFCLASS32 /\ hdr_info[5] # ELFCLASS64)
    THEN [res |-> ELF_BAD_CLASS, ctx |-> [c EXCEPT !.Class = hdr_info[5]], fetches |-> fs]
    ELSE IF hdr_info[6] = ELFDATANONE
            \/ (hdr_info[6] # ELFDATA2LSB /\ hdr_info[6] # ELFDATA2MSB)
    THEN [res |-> ELF_BAD_ENDIANNESS,
          ctx |-> [c EXCEPT !.Class = hdr_info[5], !.Endianness = hdr_info[6]],
          fetches |-> fs]
    ELSE ElfInitHeader(
           [c EXCEPT !.Class = hdr_info[5], !.Endianness = hdr_info[6],
                     !.Hdr.EI_OS_ABI = hdr_info[8], !.Hdr.EI_ABI_Version = hdr_info[9]],
           Append(fs, Fetch(Zero64,
                            IF hdr_info[5] = ELFCLASS32 THEN SizeofElf32Header
                            ELSE SizeofElf64Header,
                            SizeofElf64Header)),
           Callback(c.UserCtx, Zero64,
                    IF hdr_info[5] = ELFCLASS32 THEN SizeofElf32Header
                    ELSE SizeofElf64Header),
           hdr_info[6])

\* elf_init(user_ctx, callback, ctx), on the context c.
elf_init(user_ctx, callback, c, ctxNull) ==
    IF ctxNull THEN [res |-> ELF_BAD_ARG, ctx |-> c, fetches |-> <<>>]
    ELSE IF callback = NULL
    THEN [res |-> ELF_BAD_ARG, ctx |-> [c EXCEPT !.initialized = FALSE],
          fetches |-> <<>>]
    ELSE ElfInitIdent(
           [c EXCEPT !.initialized = FALSE, !.Callback = callback, !.UserCtx = user_ctx],
           <<Fetch(Zero64, EI_NIDENT, EI_NIDENT)>>,
           Callback(user_ctx, Zero64, EI_NIDENT),
           Callback(user_ctx, Zero64, EI_NIDENT).data)

\* get_header without the copy of the cached header: the caller's structure is
\* left as it was.
get_header_no_copy(c, ctxNull, header, headerNull) ==
    IF validate_ctx(c, ctxNull) # ELF_OK
    THEN [res |-> ELF_UNINIT, out |-> header, fetches |-> <<>>]
    ELSE IF headerNull
    THEN [res |-> ELF_BAD_ARG, out |-> header, fetches |-> <<>>]
    ELSE [res |-> ELF_OK, out |-> header, fetches |-> <<>>]

\* get_header(ctx, header); header is what the caller's structure holds before
\* the call.
get_header(c, ctxNull, header, headerNull) ==
    IF validate_ctx(c, ctxNull) # ELF_OK
    THEN [res |-> ELF_UNINIT, out |-> header, fetches |-> <<>>]
    ELSE IF headerNull
    THEN [res |-> ELF_BAD_ARG, out |-> header, fetches |-> <<>>]
    ELSE [res |-> ELF_OK, out |-> c.Hdr, fetches |-> <<>>]

get_section_count(c, ctxNull) ==
    IF validate_ctx(c, ctxNull) # ELF_OK THEN 0 ELSE c.Hdr.SHEntryNum

get_program_header_count(c, ctxNull) ==
    IF validate_ctx(c, ctxNull) # ELF_OK THEN 0 ELSE c.Hdr.PHEntryNum

\* sizeof(sec_name), sizeof(sym_name): the name buffers of the searches.
NameBufLen == 256

RECURSIVE StrLoop(_, _, _, _, _, _)

\* One turn of the loop of internal_get_str_from_offset: r is what the callback
\* returned for the byte at position i.
StrStep(c, offset, len, i, got, fs, r) ==
    IF r.res # ELF_OK
    THEN [res |-> r.res, i |-> i, got |-> got, fetches |-> fs]
    ELSE IF r.data[1] = 0
    THEN [res |-> ELF_OK, i |-> i, got |-> Append(got, 0), fetches |-> fs]
    ELSE StrLoop(c, offset, len, i + 1, Append(got, r.data[1]), fs)

\* The loop of internal_get_str_from_offset from position i on: got are the bytes
\* stored in buff[0..i-1] so far.
StrLoop(c, offset, len, i, got, fetches) ==
    IF i < len
    THEN StrStep(c, offset, len, i, got,
                 Append(fetches, Fetch(Add64(offset, U64(i)), 1, len - i)),
                 Callback(c.UserCtx, Add64(offset, U64(i)), 1))
    ELSE [res |-> ELF_OK, i |-> i, got |-> got, fetches |-> fetches]

\* The test after the loop: l is how the loop ended, mem the caller's memory from
\* the start of the buffer, with the bytes the loop stored.
StrEnd(l, mem, len, fs) ==
    [res |-> IF l.res # ELF_OK THEN l.res
             ELSE IF mem[l.i + 1] # 0 THEN ELF_BUFFER_OVERFLOW
             ELSE ELF_OK,
     out |-> SubSeq(mem, 1, len), fetches |-> fs \o l.fetches]

StrStored(l, buff, len, fs) ==
    StrEnd(l, l.got \o SubSeq(buff, Len(l.got) + 1, len + 1), len, fs)

\* internal_get_str_from_offset(ctx, offset, buff, len).  buff is the caller's
\* memory from the start of the buffer: its len bytes, then the byte that lies
\* after them, which the test after the loop reads when the loop ran to len.
\* fs are the fetches the calling function made before.
internal_get_str_from_offset(c, offset, buff, len, fs) ==
    StrStored(StrLoop(c, offset, len, 0, <<>>, <<>>), buff, len, fs)

\* get_section_name once the header of the name table is asked for.
SectionNameIn(c, r, sec_header, buff, len) ==
    IF r.res # ELF_OK
    THEN [res |-> r.res, out |-> SubSeq(buff, 1, len), fetches |-> r.fetches]
    ELSE internal_get_str_from_offset(c, Add64(r.out.Offset, U64(sec_header.NameIdx)),
                                      buff, len, r.fetches)

get_section_name(c, ctxNull, sec_header, secNull, buff, buffNull, len) ==
    IF validate_ctx(c, ctxNull) # ELF_OK
    THEN [res |-> ELF_UNINIT, out |-> SubSeq(buff, 1, len), fetches |-> <<>>]
    ELSE IF secNull \/ buffNull \/ len = 0
    THEN [res |-> ELF_BAD_ARG, out |-> SubSeq(buff, 1, len), fetches |-> <<>>]
    ELSE SectionNameIn(c, get_section_header(c, ctxNull, c.Hdr.SecStrIndx,
                                             SomeSecHeader, FALSE),
                       sec_header, buff, len)

\* get_str_from_table once the header of the table is asked for.
StrFromTableIn(c, r, str_idx, buff, buffNull, len) ==
    IF r.res # ELF_OK
    THEN [res |-> r.res, out |-> SubSeq(buff, 1, len), fetches |-> r.fetches]
    ELSE IF r.out.Type # SHT_STRTAB \/ Le64(r.out.Size, U64(str_idx))
            \/ buffNull \/ len = 0
    THEN [res |-> ELF_BAD_ARG, out |-> SubSeq(buff, 1, len), fetches |-> r.fetches]
    ELSE internal_get_str_from_offset(c, Add64(r.out.Offset, U64(str_idx)), buff, len,
                                      r.fetches)

get_str_from_table(c, ctxNull, sec_idx, str_idx, buff, buffNull, len) ==
    StrFromTableIn(c, get_section_header(c, ctxNull, sec_idx, SomeSecHeader, FALSE),
                   str_idx, buff, buffNull, len)

RECURSIVE NameEq(_, _, _)
\* The comparison loop of the searches from position j on (j counts from 0):
\* TRUE when it returns ELF_OK, FALSE when it breaks or runs out.
NameEq(name, found, j) ==
    IF j >= NameBufLen THEN FALSE
    ELSE IF name[j + 1] # found[j + 1] THEN FALSE
    ELSE IF name[j + 1] = 0 THEN TRUE
    ELSE NameEq(name, found, j + 1)

\* The name buffer of a search before it is filled, and the byte after it.
SomeNameBuf == Zeros(NameBufLen + 1)

RECURSIVE SectionByNameLoop(_, _, _, _, _, _, _)

\* One turn of get_section_by_name with the name read: r is what
\* get_section_header returned for entry i, n what get_section_name returned.
SectionByNameNamed(c, name, secNull, i, sec_cnt, fs, r, n) ==
    IF n.res # ELF_OK THEN [res |-> n.res, out |-> r.out, fetches |-> fs \o n.fetches]
    ELSE IF NameEq(name, n.out, 0)
    THEN [res |-> ELF_OK, out |-> r.out, fetches |-> fs \o n.fetches]
    ELSE SectionByNameLoop(c, name, r.out, secNull, i + 1, sec_cnt, fs \o n.fetches)

SectionByNameStep(c, name, secNull, i, sec_cnt, fs, r) ==
    IF r.res # ELF_OK THEN [res |-> r.res, out |-> r.out, fetches |-> fs \o r.fetches]
    ELSE SectionByNameNamed(c, name, secNull, i, sec_cnt, fs \o r.fetches, r,
                            get_section_name(c, FALSE, r.out, FALSE, SomeNameBuf, FALSE,
                                             NameBufLen))

\* The loop of get_section_by_name from entry i on.
SectionByNameLoop(c, name, sec, secNull, i, sec_cnt, fetches) ==
    IF i < sec_cnt
    THEN SectionByNameStep(c, name, secNull, i, sec_cnt, fetches,
                           get_section_header(c, FALSE, i, sec, secNull))
    ELSE [res |-> ELF_NOT_FOUND, out |-> sec, fetches |-> fetches]

get_section_by_name(c, ctxNull, name, nameNull, sec, secNull) ==
    IF nameNull \/ get_section_count(c, ctxNull) = 0
    THEN [res |-> ELF_BAD_ARG, out |-> sec, fetches |-> <<>>]
    ELSE SectionByNameLoop(c, name, sec, secNull, 1, get_section_count(c, ctxNull), <<>>)

\* The uniform program header decoded from the bytes of an entry.
DecodeProHeader(c, b, e) ==
    IF c.Class = ELFCLASS32
    THEN [Type |-> Val(read_32(Field(b, 0, 4), e)),
          Flags |-> Val(read_32(Field(b, 24, 4), e)),
          Offset |-> Zext(read_32(Field(b, 4, 4), e)),
          PhyAddress |-> Zext(read_32(Field(b, 8, 4), e)),
          VirAddress |-> Zext(read_32(Field(b, 12, 4), e)),
          FileSize |-> Zext(read_32(Field(b, 16, 4), e)),
          MemSize |-> Zext(read_32(Field(b, 20, 4), e)),
          Alignment |-> Zext(read_32(Field(b, 28, 4), e))]
    ELSE [Type |-> Val(read_32(Field(b, 0, 4), e)),
          Flags |-> Val(read_32(Field(b, 4, 4), e)),
          Offset |-> read_64(Field(b, 8, 8), e),
          PhyAddress |-> read_64(Field(b, 16, 8), e),
          VirAddress |-> read_64(Field(b, 24, 8), e),
          FileSize |-> read_64(Field(b, 32, 8), e),
          MemSize |-> read_64(Field(b, 40, 8), e),
          Alignment |-> read_64(Field(b, 48, 8), e)]

ProgramHeaderFetched(c, prog_header, r, fs) ==
    IF r.res # ELF_OK
    THEN [res |-> r.res, out |-> prog_header, fetches |-> fs]
    ELSE [res |-> ELF_OK, out |-> DecodeProHeader(c, r.data, c.Endianness),
          fetches |-> fs]

ProgramHeaderAt(c, prog_header, offset, size) ==
    ProgramHeaderFetched(c, prog_header, Callback(c.UserCtx, offset, size),
                         <<Fetch(offset, size, SizeofElf64ProHeader)>>)

\* get_program_header(ctx, idx, prog_header), prog_header not NULL.  Both classes
\* ask for sizeof(Elf..SecHeader) bytes into a buffer of sizeof(Elf64ProHeader).
get_program_header(c, ctxNull, idx, prog_header) ==
    IF validate_ctx(c, ctxNull) # ELF_OK
    THEN [res |-> ELF_UNINIT, out |-> prog_header, fetches |-> <<>>]
    ELSE IF idx >= c.Hdr.PHEntryNum
    THEN [res |-> ELF_BAD_ARG, out |-> prog_header, fetches |-> <<>>]
    ELSE ProgramHeaderAt(c, prog_header,
                         Add64(c.Hdr.ProHeadOff, U64(idx * c.Hdr.PHEntrySize)),
                         IF c.Class = ELFCLASS32 THEN SizeofElf32SecHeader
                         ELSE SizeofElf64SecHeader)

SomeProHeader ==
    [Type |-> 0, Flags |-> 0, Offset |-> Zero64, PhyAddress |-> Zero64,
     VirAddress |-> Zero64, FileSize |-> Zero64, MemSize |-> Zero64,
     Alignment |-> Zero64]

get_symbol_count(c, ctxNull, sym_tab, symTabNull) ==
    IF validate_ctx(c, ctxNull) # ELF_OK \/ symTabNull \/ sym_tab.EntrySize = Zero64
    THEN 0
    ELSE Div64(sym_tab.Size, sym_tab.EntrySize)

\* The uniform symbol decoded from the bytes of an entry.
DecodeSym(c, b, e) ==
    IF c.Class = ELFCLASS32
    THEN [NameIdx |-> Val(read_32(Field(b, 0, 4), e)),
          Type |-> b[13] % 16,
          Binding |-> b[13] \div 16,
          SecIdx |-> read_16(Field(b, 14, 2), e),
          Value |-> Zext(read_32(Field(b, 4, 4), e)),
          Size |-> Zext(read_32(Field(b, 8, 4), e))]
    ELSE [NameIdx |-> Val(read_32(Field(b, 0, 4), e)),
          Type |-> b[5] % 16,
          Binding |-> b[5] \div 16,
          SecIdx |-> read_16(Field(b, 6, 2), e),
          Value |-> read_64(Field(b, 8, 8), e),
          Size |-> read_64(Field(b, 16, 8), e)]

SymbolEntryFetched(c, sym, r, fs) ==
    IF r.res # ELF_OK
    THEN [res |-> r.res, out |-> sym, fetches |-> fs]
    ELSE [res |-> ELF_OK, out |-> DecodeSym(c, r.data, c.Endianness), fetches |-> fs]

SymbolEntryAt(c, sym, offset, size) ==
    SymbolEntryFetched(c, sym, Callback(c.UserCtx, offset, size),
                       <<Fetch(offset, size, SizeofElf64SymEntry)>>)

get_symbol_entry(c, ctxNull, sym_tab, symTabNull, idx, sym, symNull) ==
    IF validate_ctx(c, ctxNull) # ELF_OK
    THEN [res |-> ELF_UNINIT, out |-> sym, fetches |-> <<>>]
    ELSE IF symTabNull \/ symNull
    THEN [res |-> ELF_BAD_ARG, out |-> sym, fetches |-> <<>>]
    ELSE SymbolEntryAt(c, sym, Add64(sym_tab.Offset, Mul64(idx, sym_tab.EntrySize)),
                       IF c.Class = ELFCLASS32 THEN SizeofElf32SymEntry
                       ELSE SizeofElf64SymEntry)

SomeSym ==
    [NameIdx |-> 0, Type |-> STT_NOTYPE, Binding |-> 0, SecIdx |-> SHN_UNDEF,
     Value |-> Zero64, Size |-> Zero64]

get_symbol_name(c, ctxNull, str_tab_idx, sym, symNull, buff, buffNull, len) ==
    IF symNull \/ str_tab_idx = 0
    THEN [res |-> ELF_BAD_ARG, out |-> SubSeq(buff, 1, len), fetches |-> <<>>]
    ELSE get_str_from_table(c, ctxNull, str_tab_idx, sym.NameIdx, buff, buffNull, len)

\* The tests of get_symbol_by_addr_exact without the test of the type.
ExactMatchUntyped(sym, addr) ==
    /\ sym.SecIdx # SHN_UNDEF
    /\ sym.Value = addr

\* The tests of get_symbol_by_addr_exact on a fetched entry.
ExactMatch(sym, addr) ==
    /\ sym.SecIdx # SHN_UNDEF
    /\ ~(sym.Type # STT_FUNC /\ sym.Type # STT_OBJECT)
    /\ sym.Value = addr

\* The tests of get_symbol_by_addr_range on a fetched entry.
RangeMatch(sym, addr) ==
    /\ sym.SecIdx # SHN_UNDEF
    /\ Ge64(addr, sym.Value) /\ Lt64(addr, Add64(sym.Value, sym.Size))

RECURSIVE SymbolByAddrLoop(_, _, _, _, _, _, _, _, _)

\* A later match replaces an earlier one: the step of a loop with no return on
\* the match.
SymbolByAddrKeep(r, fs, later) ==
    IF later.res = ELF_NOT_FOUND
    THEN [res |-> ELF_OK, out |-> r.out, fetches |-> later.fetches]
    ELSE later

SymbolByAddrStepLast(c, exact, sym_tab, addr, symNull, i, sym_cnt, fs, r) ==
    IF r.res # ELF_OK THEN [res |-> r.res, out |-> r.out, fetches |-> fs \o r.fetches]
    ELSE IF (IF exact THEN ExactMatch(r.out, addr) ELSE RangeMatch(r.out, addr))
    THEN SymbolByAddrKeep(r, fs,
             SymbolByAddrLoop(c, exact, sym_tab, addr, r.out, symNull, i + 1, sym_cnt,
                              fs \o r.fetches))
    ELSE SymbolByAddrLoop(c, exact, sym_tab, addr, r.out, symNull, i + 1, sym_cnt,
                          fs \o r.fetches)

\* The step of the loop on entry i: r is what get_symbol_entry returned, fs the
\* fetches before it.
SymbolByAddrStep(c, exact, sym_tab, addr, symNull, i, sym_cnt, fs, r) ==
    IF r.res # ELF_OK THEN [res |-> r.res, out |-> r.out, fetches |-> fs \o r.fetches]
    ELSE IF (IF exact THEN ExactMatch(r.out, addr) ELSE RangeMatch(r.out, addr))
    THEN [res |-> ELF_OK, out |-> r.out, fetches |-> fs \o r.fetches]
    ELSE SymbolByAddrLoop(c, exact, sym_tab, addr, r.out, symNull, i + 1, sym_cnt,
                          fs \o r.fetches)

\* The loop of get_symbol_by_addr_exact (exact = TRUE) and of
\* get_symbol_by_addr_range (exact = FALSE) from entry i on.
SymbolByAddrLoop(c, exact, sym_tab, addr, sym, symNull, i, sym_cnt, fetches) ==
    IF i < sym_cnt
    THEN SymbolByAddrStep(c, exact, sym_tab, addr, symNull, i, sym_cnt, fetches,
                          get_symbol_entry(c, FALSE, sym_tab, FALSE, i, sym, symNull))
    ELSE [res |-> ELF_NOT_FOUND, out |-> sym, fetches |-> fetches]

get_symbol_by_addr_exact(c, ctxNull, sym_tab, symTabNull, addr, sym, symNull) ==
    IF get_symbol_count(c, ctxNull, sym_tab, symTabNull) = 0
    THEN [res |-> ELF_BAD_ARG, out |-> sym, fetches |-> <<>>]
    ELSE SymbolByAddrLoop(c, TRUE, sym_tab, addr, sym, symNull, 1,
                          get_symbol_count(c, ctxNull, sym_tab, symTabNull), <<>>)

get_symbol_by_addr_range(c, ctxNull, sym_tab, symTabNull, addr, sym, symNull) ==
    IF get_symbol_count(c, ctxNull, sym_tab, symTabNull) = 0
    THEN [res |-> ELF_BAD_ARG, out |-> sym, fetches |-> <<>>]
    ELSE SymbolByAddrLoop(c, FALSE, sym_tab, addr, sym, symNull, 1,
                          get_symbol_count(c, ctxNull, sym_tab, symTabNull), <<>>)

RECURSIVE SymbolByNameLoop(_, _, _, _, _, _, _, _)

SymbolByNameNamed(c, name, sym_tab, symNull, i, sym_cnt, fs, r, n) ==
    IF n.res # ELF_OK THEN [res |-> n.res, out |-> r.out, fetches |-> fs \o n.fetches]
    ELSE IF NameEq(name, n.out, 0)
    THEN [res |-> ELF_OK, out |-> r.out, fetches |-> fs \o n.fetches]
    ELSE SymbolByNameLoop(c, name, sym_tab, r.out, symNull, i + 1, sym_cnt,
                          fs \o n.fetches)

SymbolByNameStep(c, name, sym_tab, symNull, i, sym_cnt, fs, r) ==
    IF r.res # ELF_OK THEN [res |-> r.res, out |-> r.out, fetches |-> fs \o r.fetches]
    ELSE SymbolByNameNamed(c, name, sym_tab, symNull, i, sym_cnt, fs \o r.fetches, r,
                           get_symbol_name(c, FALSE, sym_tab.Link, r.out, FALSE,
                                           SomeNameBuf, FALSE, NameBufLen))

\* The loop of get_symbol_by_name from entry i on.
SymbolByNameLoop(c, name, sym_tab, sym, symNull, i, sym_cnt, fetches) ==
    IF i < sym_cnt
    THEN SymbolByNameStep(c, name, sym_tab, symNull, i, sym_cnt, fetches,
                          get_symbol_entry(c, FALSE, sym_tab, FALSE, i, sym, symNull))
    ELSE [res |-> ELF_NOT_FOUND, out |-> sym, fetches |-> fetches]

get_symbol_by_name(c, ctxNull, name, nameNull, sym_tab, symTabNull, sym, symNull) ==
    IF nameNull \/ get_symbol_count(c, ctxNull, sym_tab, symTabNull) = 0
    THEN [res |-> ELF_BAD_ARG, out |-> sym, fetches |-> <<>>]
    ELSE SymbolByNameLoop(c, name, sym_tab, sym, symNull, 1,
                          get_symbol_count(c, ctxNull, sym_tab, symTabNull), <<>>)

----------------------------------------------------------------------------
(* The writer (src/src/writer/elf_writer.c).  The heap of the writer is a   *)
(* record: the context, its header, and the sections allocated so far; a   *)
(* section handle is the position of the section among them, 0 for NULL.   *)
(* An allocation succeeds or fails as the caller of the operator says.     *)

ELF_NO_MEM == "ELF_NO_MEM"

\* What a call that never returns leaves as its result: the process received a
\* signal.
Trapped == "trapped"

\* elfw_vec_init(v)
elfw_vec_init == [data |-> <<>>, capacity |-> 0]

\* The capacity elfw_vec_push asks realloc for.
NewCap(v) == IF v.capacity = 0 THEN 4 ELSE v.capacity * 2

\* elfw_vec_push(v, elem): mem tells whether realloc, when called, succeeds.
elfw_vec_push(v, elem, elemNull, mem) ==
    IF elemNull THEN [res |-> ELF_BAD_ARG, v |-> v]
    ELSE IF Len(v.data) = v.capacity /\ ~mem THEN [res |-> ELF_NO_MEM, v |-> v]
    ELSE [res |-> ELF_OK,
          v |-> [data |-> Append(v.data, elem),
                 capacity |-> IF Len(v.data) = v.capacity THEN NewCap(v)
                              ELSE v.capacity]]

\* elfw_vec_destroy(v, destroy): the vector afterwards.
elfw_vec_destroy(v) == [data |-> <<>>, capacity |-> 0]

\* The ElfwCtx pointer of a program that holds no writer context: NULL.
NoWriter == [null |-> TRUE]

\* elfw_create(): the context calloc returns, its vectors empty, no header;
\* NULL when calloc fails.
NoHead == [set |-> FALSE]
elfw_create(mem) ==
    IF ~mem THEN NoWriter
    ELSE [null |-> FALSE, Head |-> NoHead, Sections |-> elfw_vec_init, heap |-> <<>>]

\* elfw_create_header(ctx, info): mem tells whether malloc succeeds.
elfw_create_header(w, ctxNull, info, mem) ==
    IF ctxNull THEN [res |-> ELF_UNINIT, w |-> w]
    ELSE IF ~mem THEN [res |-> ELF_NO_MEM, w |-> w]
    ELSE [res |-> ELF_OK,
          w |-> [w EXCEPT !.Head =
                    [set |-> TRUE, EI_Class |-> info.Class, EI_Data |-> info.Endianness,
                     EI_Version |-> 1, EI_OS_ABI |-> info.Os_abi,
                     EI_ABI_Version |-> info.Abi_version, Type |-> info.Type,
                     Machine |-> info.Machine, Version |-> 1, Flags |-> info.Flags,
                     Entry |-> info.Entry, HeadSize |-> SizeofElf64Header,
                     PHEntrySize |-> SizeofElf64ProHeader,
                     SHEntrySize |-> SizeofElf64SecHeader, SecHeadOff |-> 0,
                     ProHeadOff |-> 0, PHEntryNum |-> 0, SHEntryNum |-> 0,
                     SecNameStrIndx |-> 0]]]

\* The checks of elfw_add_section on a description: the result they return, or
\* ELF_OK.  SECTION_NULL, SECTION_STRTAB, SECTION_SYMTAB, SECTION_DYNSYM,
\* SEC_FLAG_ALLOC and CLASS_32 are the enumerators of ElfSectionType,
\* ElfSectionFlag and EiClass.
AddSectionChecks(w, info) ==
    IF info.Alignment = Zero64 THEN ELF_BAD_ARG
    ELSE IF And64(info.Alignment, Sub64(info.Alignment, U64(1))) = Zero64
    THEN ELF_BAD_ARG
    ELSE IF info.Address # Zero64 /\ Mod64(info.Address, info.Alignment) # Zero64
    THEN ELF_BAD_ARG
    ELSE IF ~HasFlag(info.Flags, SHF_ALLOC) /\ info.Address # Zero64 THEN ELF_BAD_ARG
    ELSE IF info.EntrySize # Zero64 /\ Mod64(info.EntrySize, info.Alignment) # Zero64
    THEN ELF_BAD_ARG
    ELSE IF info.Type = SHT_NULL /\ (info.Address # Zero64 \/ info.EntrySize # Zero64)
    THEN ELF_BAD_ARG
    ELSE IF info.Type = SHT_STRTAB /\ info.EntrySize # Zero64 /\ info.EntrySize # U64(1)
    THEN ELF_BAD_ARG
    ELSE IF /\ info.Type \in {SHT_DYNSYM, SHT_SYMTAB} /\ w.Head.set
            /\ info.EntrySize # U64(IF w.Head.EI_Class = ELFCLASS32
                                    THEN SizeofElf32SymEntry ELSE SizeofElf64SymEntry)
    THEN ELF_BAD_ARG
    ELSE ELF_OK

\* The section elfw_add_section builds from a description.
NewSection(info) ==
    [Name |-> info.Name, Type |-> info.Type, Flags |-> info.Flags,
     StartAddr |-> info.Address, Link |-> info.Link, Info |-> info.Info,
     Align |-> info.Alignment, EntrySize |-> info.EntrySize,
     Chunks |-> elfw_vec_init, Offset |-> Zero64]

\* elfw_add_section once the two allocations succeeded: the section is on the
\* heap, its handle is returned, and the result of elfw_vec_push is dropped.
AddSectionPushed(w, info, pushed) ==
    [res |-> ELF_OK,
     w |-> [w EXCEPT !.heap = Append(w.heap, NewSection(info)), !.Sections = pushed.v],
     out |-> Len(w.heap) + 1]

\* elfw_add_section(ctx, info, new_sec): mem[1] and mem[2] tell whether the
\* malloc of the section and of its name succeed, mem[3] whether the realloc
\* of elfw_vec_push does.  out is the handle *new_sec holds afterwards.
elfw_add_section(w, ctxNull, info, infoNull, mem) ==
    IF ctxNull THEN [res |-> ELF_UNINIT, w |-> w, out |-> 0]
    ELSE IF infoNull THEN [res |-> ELF_BAD_ARG, w |-> w, out |-> 0]
    ELSE IF AddSectionChecks(w, info) # ELF_OK
    THEN [res |-> AddSectionChecks(w, info), w |-> w, out |-> 0]
    ELSE IF ~mem[1] \/ ~mem[2] THEN [res |-> ELF_NO_MEM, w |-> w, out |-> 0]
    ELSE AddSectionPushed(w, info,
                          elfw_vec_push(w.Sections, Len(w.heap) + 1, FALSE, mem[3]))

\* A next offset that rounds down instead of up.
elfw_section_next_offset_down(sec, align) ==
    And64(sec.Offset, Not64(Sub64(align, U64(1))))

\* elfw_section_next_offset(section, align)
elfw_section_next_offset(sec, align) ==
    And64(Sub64(Add64(sec.Offset, align), U64(1)), Not64(Sub64(align, U64(1))))

\* What is found behind an element of a chunk list.  elfw_section_append_data
\* pushes &chk, the address of its own local variable, which is gone when it
\* returns: a later read through the element finds the chunk chk pointed to
\* (the slot still holds chk and the reader follows it) or whatever the stack
\* holds there by then.
StackGarbage == [data |-> "stack", size |-> Zero64, align |-> Zero64]

\* Chunk *chk = malloc(...); chk->data = data; chk->size = size; chk->align = align;
NewChunk(data, size, align) == [data |-> data, size |-> size, align |-> align]

\* The tail of elfw_section_append_data: the push, whose result is dropped, then
\* the new running offset.
AppendPushed(sec, pushed, size, align) ==
    [res |-> ELF_OK,
     sec |-> [sec EXCEPT !.Chunks = pushed.v,
                         !.Offset = Add64(elfw_section_next_offset(sec, align), size)]]

\* elfw_section_append_data(section, data, size, align): mem[1] tells whether
\* malloc succeeds, mem[2] whether the realloc of elfw_vec_push does.  The
\* stores through a NULL chk either stop the process (trap) or are lost; view
\* is what the pushed element will show of the chunk.
elfw_section_append_data(sec, secNull, data, dataNull, size, align, mem, trap, view) ==
    IF secNull THEN [res |-> ELF_UNINIT, sec |-> sec]
    ELSE IF dataNull THEN [res |-> ELF_BAD_ARG, sec |-> sec]
    ELSE IF size = Zero64 THEN [res |-> ELF_OK, sec |-> sec]
    ELSE IF ~mem[1] /\ trap THEN [res |-> Trapped, sec |-> sec]
    ELSE AppendPushed(sec, elfw_vec_push(sec.Chunks, view, FALSE, mem[2]), size, align)

\* elfw_section_set_data(section, data, size, align): elfw_vec_destroy hands
\* every element of the chunk list to free; free of an address that malloc
\* never returned either stops the process (trapFree) or goes unnoticed.
elfw_section_set_data(sec, secNull, data, dataNull, size, align, mem, trap, view, trapFree) ==
    IF secNull THEN [res |-> ELF_UNINIT, sec |-> sec]
    ELSE IF Len(sec.Chunks.data) > 0 /\ trapFree THEN [res |-> Trapped, sec |-> sec]
    ELSE elfw_section_append_data(
             [sec EXCEPT !.Chunks = elfw_vec_destroy(sec.Chunks), !.Offset = Zero64],
             FALSE, data, dataNull, size, align, mem, trap, view)

----------------------------------------------------------------------------
(* Emission (spec.md 4.7): the context is laid out and encoded in one pass. *)

\* Step 1: the packed size of a chunk list, each chunk padded to its alignment.
RECURSIVE PackedSize(_, _)
PackedSize(chunks, off) ==
    IF chunks = <<>> THEN off
    ELSE PackedSize(Tail(chunks),
                    Add64(elfw_section_next_offset([Offset |-> off], chunks[1].align),
                          chunks[1].size))

\* The payload of a chunk list: pad bytes, then the bytes each chunk borrows
\* (00, 01, 02, ... for the payload of the program, none behind a stale element).
CutOrPad(done, o) == IF o < Len(done) THEN SubSeq(done, 1, o) ELSE PadTo(done, o)
RECURSIVE PackedBytes(_, _)
PackedBytes(chunks, done) ==
    IF chunks = <<>> THEN done
    ELSE PackedBytes(
             Tail(chunks),
             CutOrPad(done, Val(elfw_section_next_offset([Offset |-> U64(Len(done))],
                                                         chunks[1].align)))
             \o [i \in 1..Val(chunks[1].size) |-> i - 1])

\* Step 2: the smallest offset not below x that obeys the alignment a.
RoundUp(x, a) == IF a = 0 THEN x ELSE ((x + a - 1) \div a) * a

\* The image so far with the payload of each section of secs placed in declared
\* order, and the section headers so far with theirs appended (steps 2 and 3).
RECURSIVE PlaceSections(_, _, _)
PlaceSections(secs, image, table) ==
    IF secs = <<>> THEN [image |-> image, table |-> table]
    ELSE PlaceSections(
             Tail(secs),
             PadTo(image, RoundUp(Len(image), Val(secs[1].Align)))
                 \o PackedBytes(secs[1].Chunks.data, <<>>),
             Append(table,
                    [name |-> 0, type |-> secs[1].Type, flags |-> Val(secs[1].Flags),
                     addr |-> Val(secs[1].StartAddr),
                     offset |-> RoundUp(Len(image), Val(secs[1].Align)),
                     size |-> Val(PackedSize(secs[1].Chunks.data, Zero64)),
                     link |-> 0, info |-> secs[1].Info,
                     addralign |-> Val(secs[1].Align),
                     entsize |-> Val(secs[1].EntrySize)]))

\* Steps 3 to 5: the header with its offset, count and entry-size fields filled,
\* every record encoded with the configured endianness, and the byte image:
\* header, payloads, section-header table (the implicit NULL section first).
EmitImage(head, placed) ==
    EncHeader([magic4 |-> 70, ei_class |-> head.EI_Class, ei_data |-> head.EI_Data,
               ei_version |-> head.EI_Version, ei_osabi |-> head.EI_OS_ABI,
               ei_abiversion |-> head.EI_ABI_Version, e_type |-> head.Type,
               e_machine |-> head.Machine, e_version |-> head.Version,
               e_entry |-> Val(head.Entry), e_phoff |-> 0,
               e_shoff |-> Len(placed.image), e_flags |-> head.Flags,
               e_ehsize |-> HeadSize(head.EI_Class),
               e_phentsize |-> ProSize(head.EI_Class), e_phnum |-> 0,
               e_shentsize |-> SecSize(head.EI_Class),
               e_shnum |-> Len(placed.table), e_shstrndx |-> 0],
              head.EI_Class, head.EI_Data)
    \o SubSeq(placed.image, HeadSize(head.EI_Class) + 1, Len(placed.image))
    \o Flat([i \in 1..Len(placed.table) |->
                EncSec(placed.table[i], head.EI_Class, head.EI_Data)])

\* The serialised context w, which holds a header: its bytes.
Serialise(w) ==
    EmitImage(w.Head,
              PlaceSections([i \in 1..Len(w.Sections.data) |-> w.heap[w.Sections.data[i]]],
                            Zeros(HeadSize(w.Head.EI_Class)),
                            <<[name |-> 0, type |-> SHT_NULL, flags |-> 0, addr |-> 0,
                               offset |-> 0, size |-> 0, link |-> 0, info |-> 0,
                               addralign |-> 0, entsize |-> 0]>>))

----------------------------------------------------------------------------
(* The calling program: it holds one context, hands files to elf_init,     *)
(* calls the reader, and looks at what each call returned.                 *)

MaxInits == 2       \* elf_init calls of one run
MaxLen == 3         \* length of the caller's string buffer

\* What the caller's context holds before the first elf_init.
SomeHeader(g) ==
    [EI_Class |-> g, EI_Data |-> g, EI_Version |-> g, EI_OS_ABI |-> g,
     EI_ABI_Version |-> g, Type |-> g, Machine |-> g, Version |-> g,
     Entry |-> U64(g), ProHeadOff |-> U64(g), SecHeadOff |-> U64(g), Flags |-> g,
     HeadSize |-> g, PHEntrySize |-> g, PHEntryNum |-> g, SHEntrySize |-> g,
     SHEntryNum |-> g, SecStrIndx |-> g]

SomeFile == File(ELFCLASS64, ELFDATA2LSB, <<>>, <<>>, <<>>, DefaultStr, 0)

SomeCtx ==
    [initialized |-> FALSE, Class |-> 7, Endianness |-> 7, UserCtx |-> SomeFile,
     Callback |-> NULL, Hdr |-> SomeHeader(7)]

\* The files a context that was handed a file already is handed next.
ReinitFiles ==
    { SomeFile,
      File(ELFCLASS32, ELFDATA2MSB, <<>>, <<>>, <<>>, DefaultStr, 0),
      File(ELFCLASS64, ELFDATA2LSB, << <<"magic4", 71>> >>, <<>>, <<>>, DefaultStr, 0),
      File(ELFCLASS64, ELFDATA2LSB, << <<"e_shoff", 0>> >>, <<>>, <<>>, DefaultStr, 0),
      File(ELFCLASS64, ELFDATA2LSB, <<>>, <<>>, <<>>, DefaultStr, EI_NIDENT \div 2),
      File(ELFCLASS64, ELFDATA2LSB, <<>>, <<>>, <<>>, DefaultStr, SizeofElf32Header) }

\* The section header the caller passes for section i of the file f.
SecArg(f, i) ==
    LET s == SecsOf(f)[i + 1]
    IN  [NameIdx |-> s.name, Type |-> s.type, Flags |-> U64(s.flags),
         Address |-> U64(s.addr), Offset |-> U64(s.offset), Size |-> U64(s.size),
         Link |-> s.link, Info |-> s.info, Alignment |-> U64(s.addralign),
         EntrySize |-> U64(s.entsize)]

\* The symbol tables the caller passes: .symtab of the file, and the same with no
\* entries.
SymTabArgs(f) == { SecArg(f, 2), [SecArg(f, 2) EXCEPT !.Size = Zero64] }

\* The symbol the caller passes for entry i of the file f.
SymArg(f, i) ==
    LET s == SymsOf(f)[i + 1]
    IN  [NameIdx |-> s.name, Type |-> s.type, Binding |-> s.bind, SecIdx |-> s.shndx,
         Value |-> s.value, Size |-> s.size]

\* The addresses the caller asks about: 0, and for each symbol of the file its
\* value V, V + N - 1 and V + N.
AddrsOf(f) ==
    {Zero64} \cup
    UNION { { f.syms[i].value,
              Add64(Add64(f.syms[i].value, f.syms[i].size), Max64),
              Add64(f.syms[i].value, f.syms[i].size) } : i \in 1..Len(f.syms) }

\* The names the caller asks for: ".t", ".h", ".x" and "a", "ab", "c".
SecNames == { <<46, 116, 0>>, <<46, 104, 0>>, <<46, 120, 0>> }
SymNames == { <<97, 0>>, <<97, 98, 0>>, <<99, 0>> }

\* The caller's string buffer of len bytes, and the byte of its memory after it.
Buf(len, beyond) == [i \in 1..len |-> 170] \o <<beyond>>
Beyonds == {0, 1}

NoCall == [op |-> "none", arg |-> <<>>, res |-> ELF_OK, out |-> <<>>, fetches |-> <<>>]

Init ==
    /\ host \in Datas
    /\ ctx = SomeCtx
    /\ inits = 0
    /\ pc = "idle"
    /\ last = NoCall
    /\ writer = NoWriter

\* A reader call: the context is read only.
Call(op, arg, r) ==
    /\ pc = "idle"
    /\ pc' = "returned"
    /\ last' = [op |-> op, arg |-> arg, res |-> r.res, out |-> r.out,
                fetches |-> r.fetches]
    /\ UNCHANGED <<host, ctx, inits, writer>>

ElfInit(f, callback, ctxNull) ==
    /\ pc = "idle"
    /\ inits < MaxInits
    /\ inits = 0 \/ f \in ReinitFiles
    /\ LET r == elf_init(f, callback, ctx, ctxNull)
       IN  /\ ctx' = r.ctx
           /\ last' = [op |-> "elf_init",
                       arg |-> [file |-> f, callback |-> callback, ctxNull |-> ctxNull],
                       res |-> r.res, out |-> <<>>, fetches |-> r.fetches]
    /\ inits' = inits + 1
    /\ pc' = "returned"
    /\ UNCHANGED <<host, writer>>

GetHeader(ctxNull, headerNull) ==
    Call("get_header", [ctxNull |-> ctxNull, headerNull |-> headerNull],
         get_header(ctx, ctxNull, SomeHeader(0), headerNull))

GetSectionHeader(idx, ctxNull, secNull) ==
    Call("get_section_header", [idx |-> idx, ctxNull |-> ctxNull, secNull |-> secNull],
         get_section_header(ctx, ctxNull, idx, SomeSecHeader, secNull))

GetSectionName(sec, len, beyond, nulls) ==
    Call("get_section_name",
         [sec |-> sec, len |-> len, beyond |-> beyond, nulls |-> nulls],
         get_section_name(ctx, nulls[1], sec, nulls[2], Buf(len, beyond), nulls[3], len))

GetSectionByName(name, nulls) ==
    Call("get_section_by_name", [name |-> name, nulls |-> nulls],
         get_section_by_name(ctx, nulls[1], name, nulls[2], SomeSecHeader, nulls[3]))

GetProgramHeader(idx, ctxNull) ==
    Call("get_program_header", [idx |-> idx, ctxNull |-> ctxNull],
         get_program_header(ctx, ctxNull, idx, SomeProHeader))

GetSymbolEntry(sym_tab, idx, nulls) ==
    Call("get_symbol_entry", [sym_tab |-> sym_tab, idx |-> idx, nulls |-> nulls],
         get_symbol_entry(ctx, nulls[1], sym_tab, nulls[2], idx, SomeSym, nulls[3]))

GetSymbolName(str_tab_idx, sym, len, beyond, nulls) ==
    Call("get_symbol_name",
         [str_tab_idx |-> str_tab_idx, sym |-> sym, len |-> len, beyond |-> beyond,
          nulls |-> nulls],
         get_symbol_name(ctx, nulls[1], str_tab_idx, sym, nulls[2], Buf(len, beyond),
                         nulls[3], len))

GetSymbolByAddrExact(sym_tab, addr, nulls) ==
    Call("get_symbol_by_addr_exact", [sym_tab |-> sym_tab, addr |-> addr, nulls |-> nulls],
         get_symbol_by_addr_exact(ctx, nulls[1], sym_tab, nulls[2], addr, SomeSym,
                                  nulls[3]))

GetSymbolByAddrRange(sym_tab, addr, nulls) ==
    Call("get_symbol_by_addr_range", [sym_tab |-> sym_tab, addr |-> addr, nulls |-> nulls],
         get_symbol_by_addr_range(ctx, nulls[1], sym_tab, nulls[2], addr, SomeSym,
                                  nulls[3]))

GetSymbolByName(name, sym_tab, nulls) ==
    Call("get_symbol_by_name", [name |-> name, sym_tab |-> sym_tab, nulls |-> nulls],
         get_symbol_by_name(ctx, nulls[1], name, nulls[2], sym_tab, nulls[3], SomeSym,
                            nulls[4]))

GetStrFromTable(sec_idx, str_idx, len, beyond, nulls) ==
    Call("get_str_from_table",
         [sec_idx |-> sec_idx, str_idx |-> str_idx, len |-> len, beyond |-> beyond,
          nulls |-> nulls],
         get_str_from_table(ctx, nulls[1], sec_idx, str_idx, Buf(len, beyond), nulls[2],
                            len))

\* The caller has looked at the result and goes on.
Return ==
    /\ pc = "returned"
    /\ pc' = "idle"
    /\ last' = NoCall
    /\ UNCHANGED <<host, ctx, inits, writer>>

\* The pointer arguments of a call with n of them: none NULL, or one NULL.
Nulls(n) ==
    { [i \in 1..n |-> FALSE] } \cup { [i \in 1..n |-> i = k] : k \in 1..n }
NoNull(n) == [i \in 1..n |-> FALSE]

Next ==
    \/ \E f \in Files : ElfInit(f, file_read_cb, FALSE)
    \/ \E a \in { <<NULL, FALSE>>, <<file_read_cb, TRUE>> } : ElfInit(SomeFile, a[1], a[2])
    \/ \E n \in Nulls(2) : GetHeader(n[1], n[2])
    \/ \E idx \in 0..(Len(SecsOf(SomeFile)) + 1) : GetSectionHeader(idx, FALSE, FALSE)
    \/ \E n \in Nulls(2) \ {NoNull(2)} : GetSectionHeader(1, n[1], n[2])
    \/ \E i \in {1, 4}, len \in (MaxLen - 1)..MaxLen, b \in Beyonds :
          GetSectionName(SecArg(ctx.UserCtx, i), len, b, NoNull(3))
    \/ \E n \in Nulls(3) \ {NoNull(3)} :
          GetSectionName(SecArg(ctx.UserCtx, 1), MaxLen, 0, n)
    \/ \E name \in SecNames : GetSectionByName(name, NoNull(3))
    \/ \E n \in Nulls(3) \ {NoNull(3)} : GetSectionByName(<<46, 116, 0>>, n)
    \/ \E idx \in 0..1, ctxNull \in BOOLEAN : GetProgramHeader(idx, ctxNull)
    \/ \E idx \in 0..(MaxSyms + 1) :
          GetSymbolEntry(SecArg(ctx.UserCtx, 2), idx, NoNull(3))
    \/ \E n \in Nulls(3) \ {NoNull(3)} : GetSymbolEntry(SecArg(ctx.UserCtx, 2), 1, n)
    \/ \E i \in 0..Len(ctx.UserCtx.syms), len \in (MaxLen - 1)..MaxLen, b \in Beyonds :
          GetSymbolName(3, SymArg(ctx.UserCtx, i), len, b, NoNull(3))
    \/ \E n \in Nulls(3) \ {NoNull(3)} :
          GetSymbolName(3, SymArg(ctx.UserCtx, 0), MaxLen, 0, n)
    \/ GetSymbolName(0, SymArg(ctx.UserCtx, 0), MaxLen, 0, NoNull(3))
    \/ \E st \in SymTabArgs(ctx.UserCtx), addr \in AddrsOf(ctx.UserCtx) :
          GetSymbolByAddrExact(st, addr, NoNull(3))
    \/ \E n \in Nulls(3) \ {NoNull(3)} :
          GetSymbolByAddrExact(SecArg(ctx.UserCtx, 2), Zero64, n)
    \/ \E st \in SymTabArgs(ctx.UserCtx), addr \in AddrsOf(ctx.UserCtx) :
          GetSymbolByAddrRange(st, addr, NoNull(3))
    \/ \E n \in Nulls(3) \ {NoNull(3)} :
          GetSymbolByAddrRange(SecArg(ctx.UserCtx, 2), Zero64, n)
    \/ \E name \in SymNames, st \in SymTabArgs(ctx.UserCtx) :
          GetSymbolByName(name, st, NoNull(4))
    \/ \E n \in Nulls(4) \ {NoNull(4)} :
          GetSymbolByName(<<97, 0>>, SecArg(ctx.UserCtx, 2), n)
    \/ \E str_idx \in {1, 5}, len \in 1..MaxLen, b \in Beyonds :
          GetStrFromTable(3, str_idx, len, b, NoNull(2))
    \/ \E a \in { <<1, 1, MaxLen>>, <<3, StrTabSize, MaxLen>>, <<3, 1, 0>>,
                  <<Len(SecsOf(SomeFile)), 1, MaxLen>> } :
          GetStrFromTable(a[1], a[2], a[3], 0, NoNull(2))
    \/ \E n \in Nulls(2) \ {NoNull(2)} : GetStrFromTable(3, 1, MaxLen, 0, n)
    \/ Return

Spec == Init /\ [][Next]_vars

----------------------------------------------------------------------------
(* The field readers on their own: bytes as fetched, read as a field of a  *)
(* file of each declared endianness, on each host.                          *)

\* The bytes a fetched field is made of.
FieldBytes == {0, 64, 255}
Endiannesses == {ELFDATANONE, ELFDATA2LSB, ELFDATA2MSB}

CodecInit ==
    /\ host \in Datas
    /\ ctx = SomeCtx
    /\ inits = 0
    /\ pc = "idle"
    /\ last = NoCall
    /\ writer = NoWriter

FieldRead(op, data, elf_endianness, v) ==
    /\ pc = "idle"
    /\ pc' = "returned"
    /\ last' = [op |-> op, arg |-> [data |-> data, elf_endianness |-> elf_endianness],
                res |-> ELF_OK, out |-> v, fetches |-> <<>>]
    /\ UNCHANGED <<host, ctx, inits, writer>>

Read16(data, e) == FieldRead("read_16", data, e, read_16(data, e))
Read32(data, e) == FieldRead("read_32", data, e, read_32(data, e))
Read64(data, e) == FieldRead("read_64", data, e, read_64(data, e))

CodecNext ==
    \/ pc = "idle" /\ \E data \in [1..2 -> FieldBytes], e \in Endiannesses : Read16(data, e)
    \/ pc = "idle" /\ \E data \in [1..4 -> FieldBytes], e \in Endiannesses : Read32(data, e)
    \/ pc = "idle" /\ \E data \in [1..8 -> FieldBytes], e \in Endiannesses : Read64(data, e)
    \/ Return

CodecSpec == CodecInit /\ [][CodecNext]_vars

----------------------------------------------------------------------------
(* DWARF numbers (src/src/dwarf/elf_dwarf.c).  An int64_t is its 64 bits,   *)
(* bit k at k, in two's complement.                                         *)

DWRF_OK == "DWRF_OK"
DWRF_DECODE_ERR == "DWRF_DECODE_ERR"

BitPos == 0..63
Zero == [k \in BitPos |-> 0]
Pow(k0) == [k \in BitPos |-> IF k = k0 THEN 1 ELSE 0]
Flip(v) == [k \in BitPos |-> 1 - v[k]]
Or(v, m) == [k \in BitPos |-> IF v[k] = 1 \/ m[k] = 1 THEN 1 ELSE 0]

\* Bit b of a byte.
ByteBit(byte, b) == (byte \div (2 ^ b)) % 2

\* temp << shift as the 64 bits a wrapping shift leaves, temp = byte & 0x7F.
ShiftedIn(byte, shift) ==
    [k \in BitPos |-> IF k >= shift /\ k - shift <= 6 THEN ByteBit(byte, k - shift) ELSE 0]

\* temp << shift is not representable in an int64_t: a set bit of temp lands on
\* the sign bit or beyond it.
ShiftOverflows(byte, shift) ==
    \E b \in 0..6 : ByteBit(byte, b) = 1 /\ shift + b >= 63

\* (int64_t)((~0) << shift): ~0 is an int.  Below 32 the shift leaves ones from
\* bit shift up.  From 32 on the shift count is not less than the width of int,
\* which is undefined: the build masks the count to 5 bits ("masked"), shifts
\* everything out ("zero"), or shifts in a 64-bit register ("wide").
SignMask(shift, ext) ==
    IF shift < 32 \/ ext = "wide" THEN [k \in BitPos |-> IF k >= shift THEN 1 ELSE 0]
    ELSE IF ext = "masked" THEN [k \in BitPos |-> IF k >= shift % 32 THEN 1 ELSE 0]
    ELSE Zero

\* The end of decode_SLEB128: the sign extension, and the outputs.
SLEB128End(byte, shift, count, val, ext) ==
    [res |-> DWRF_OK,
     val |-> IF shift < 64 /\ ByteBit(byte, 6) = 1 THEN Or(val, SignMask(shift, ext))
             ELSE val,
     len |-> count]

\* The loop of decode_SLEB128, at byte number count + 1 of sleb128.  The left
\* shift of temp that is not representable is undefined: the build wraps it, and
\* the test that follows fails ("wrap"), or it takes the test to pass, as it
\* may of a shift that did not overflow ("assumed").
RECURSIVE SLEB128Loop(_, _, _, _, _, _)
SLEB128Loop(sleb128, shift, count, val, shl, ext) ==
    IF shift > 63 \/ (ShiftOverflows(sleb128[count + 1], shift) /\ shl = "wrap")
    THEN [res |-> DWRF_DECODE_ERR, val |-> val, len |-> 0]
    ELSE IF sleb128[count + 1] >= 128
    THEN SLEB128Loop(sleb128, shift + 7, count + 1,
                     Or(val, ShiftedIn(sleb128[count + 1], shift)), shl, ext)
    ELSE SLEB128End(sleb128[count + 1], shift + 7, count + 1,
                    Or(val, ShiftedIn(sleb128[count + 1], shift)), ext)

\* decode_SLEB128(sleb128, val, len), no pointer NULL.
decode_SLEB128(sleb128, shl, ext) == SLEB128Loop(sleb128, 0, 0, Zero, shl, ext)

\* The numbers the program decodes: 0, 1, 63, 64, 2^27, 2^31, 2^62, 2^63 - 1 and
\* -1 - n for each of them.
Numbers ==
    LET pos == {Zero, Pow(0), Flip(Or(Flip(Zero), Pow(6))) , Pow(6), Pow(27), Pow(31),
                Pow(62), Flip(Pow(63))}
    IN  pos \cup {Flip(v) : v \in pos}

\* Bit k of v sign-extended beyond bit 63.
SignedBit(v, k) == IF k > 63 THEN v[63] ELSE v[k]

\* v fits n groups of 7 bits: every bit from the sign bit of the last group on
\* is the sign of v.
FitsGroups(v, n) == \A k \in BitPos : k >= 7 * n - 1 => v[k] = v[63]

\* The SLEB128 encoding of v in n bytes.
SLEB128(v, n) ==
    [j \in 1..n |->
        (IF j < n THEN 128 ELSE 0)
        + SignedBit(v, 7 * j - 7) + 2 * SignedBit(v, 7 * j - 6)
        + 4 * SignedBit(v, 7 * j - 5) + 8 * SignedBit(v, 7 * j - 4)
        + 16 * SignedBit(v, 7 * j - 3) + 32 * SignedBit(v, 7 * j - 2)
        + 64 * SignedBit(v, 7 * j - 1)]

\* The lengths of the encodings: up to one byte more than 64 bits take.
MaxGroups == 11

LebInit ==
    /\ host \in Datas
    /\ ctx = SomeCtx
    /\ inits = 0
    /\ pc = "idle"
    /\ last = NoCall
    /\ writer = NoWriter

DecodeSLEB128(v, n, shl, ext) ==
    /\ pc = "idle"
    /\ FitsGroups(v, n)
    /\ pc' = "returned"
    /\ LET r == decode_SLEB128(SLEB128(v, n), shl, ext)
       IN  last' = [op |-> "decode_SLEB128", arg |-> [v |-> v, n |-> n],
                    res |-> r.res, out |-> [val |-> r.val, len |-> r.len],
                    fetches |-> <<>>]
    /\ UNCHANGED <<host, ctx, inits, writer>>

LebNext ==
    \/ pc = "idle" /\ \E v \in Numbers, n \in 1..MaxGroups, shl \in {"wrap", "assumed"},
                          ext \in {"masked", "zero", "wide"} :
                        DecodeSLEB128(v, n, shl, ext)
    \/ Return

LebSpec == LebInit /\ [][LebNext]_vars

----------------------------------------------------------------------------
(* The program that writes a file: it creates a writer context, declares   *)
(* the header and sections, and hands payload bytes to the sections.       *)

MaxSections == 1    \* sections one writer context is given
MaxChunks == 2      \* chunks one writer context is given, over all its sections
MaxOffset == 16     \* a section whose running offset reached this is given no more

\* The header descriptions the program declares.
HeaderInfos ==
    { [Class |-> c, Endianness |-> ELFDATA2LSB, Type |-> ET_EXEC, Machine |-> 0,
       Os_abi |-> 0, Abi_version |-> 0, Entry |-> Zero64, Flags |-> 0] :
      c \in {ELFCLASS32, ELFCLASS64} }

\* One section description.
SecInfo(name, type, flags, addr, align, entsize) ==
    [Name |-> name, Type |-> type, Flags |-> U64(flags), Address |-> U64(addr),
     Link |-> 0, Info |-> 0, Alignment |-> U64(align), EntrySize |-> U64(entsize)]

\* The section descriptions the program declares: .text with alignment 4 and
\* .shstrtab with alignment 1, and for each rule of elfw_add_section
\* descriptions on both sides of it.
SecInfos ==
    { SecInfo(".text", SHT_PROGBITS, SHF_ALLOC, 0, 4, 0),
      SecInfo(".shstrtab", SHT_STRTAB, 0, 0, 1, 0),
      SecInfo(".null", SHT_NULL, 0, 0, 1, 0),
      SecInfo(".zero", SHT_PROGBITS, 0, 0, 0, 0),
      SecInfo(".three", SHT_PROGBITS, 0, 0, 3, 0),
      SecInfo(".at6", SHT_PROGBITS, SHF_ALLOC, 6, 3, 0),
      SecInfo(".at7", SHT_PROGBITS, SHF_ALLOC, 7, 3, 0),
      SecInfo(".at8", SHT_PROGBITS, SHF_ALLOC, 8, 4, 0),
      SecInfo(".noalloc", SHT_PROGBITS, 0, 6, 3, 0),
      SecInfo(".ent4", SHT_PROGBITS, 0, 0, 3, 4),
      SecInfo(".null3", SHT_NULL, 0, 0, 3, 3),
      SecInfo(".str3", SHT_STRTAB, 0, 0, 3, 3),
      SecInfo(".symtab", SHT_SYMTAB, 0, 0, 8, SizeofElf64SymEntry),
      SecInfo(".symtab3", SHT_SYMTAB, 0, 0, 3, SizeofElf64SymEntry),
      SecInfo(".dynsym6", SHT_DYNSYM, 0, 0, 3, 6),
      SecInfo(".group", SHT_GROUP, 0, 0, 3, 0) }

\* The payloads the program hands over: its bytes, how many there are, and the
\* alignment it asks for.
Payload == "payload"
ChunkSizes == { Zero64, U64(13) }
ChunkAligns == { U64(1), U64(4) }

\* The section behind a handle.
SecOf(h) == writer.heap[h]
Handles == IF writer.null THEN {0} ELSE 0..Len(writer.heap)

\* All chunks pushed so far.
RECURSIVE ChunkCount(_, _)
ChunkCount(heap, n) ==
    IF n = 0 THEN 0 ELSE Len(heap[n].Chunks.data) + ChunkCount(heap, n - 1)

\* A writer call that returned: what it was given, the writer context before
\* it, and what it gave back.
WriterCall(op, arg, res, out) ==
    /\ pc' = IF res = Trapped THEN Trapped ELSE "returned"
    /\ last' = [op |-> op, arg |-> arg, res |-> res, out |-> out, before |-> writer]
    /\ UNCHANGED <<host, ctx, inits>>

ElfwCreate(mem) ==
    /\ pc = "idle"
    /\ writer.null
    /\ writer' = elfw_create(mem)
    /\ WriterCall("elfw_create", [mem |-> mem], ELF_OK, <<>>)

ElfwCreateHeader(info, mem) ==
    /\ pc = "idle"
    /\ LET r == elfw_create_header(writer, writer.null, info, mem)
       IN  /\ writer' = r.w
           /\ WriterCall("elfw_create_header", [info |-> info, mem |-> mem], r.res,
                         <<>>)

ElfwAddSection(info, infoNull, mem) ==
    /\ pc = "idle"
    /\ IF writer.null THEN TRUE ELSE Len(writer.heap) < MaxSections
    /\ LET r == elfw_add_section(writer, writer.null, info, infoNull, mem)
       IN  /\ writer' = r.w
           /\ WriterCall("elfw_add_section",
                         [info |-> info, infoNull |-> infoNull, mem |-> mem],
                         r.res, r.out)

\* The writer context once the section behind h is sec.
WithSec(h, sec) == IF h = 0 THEN writer ELSE [writer EXCEPT !.heap[h] = sec]

ElfwSectionAppendData(h, dataNull, size, align, mem, trap, garbage) ==
    /\ pc = "idle"
    /\ IF writer.null THEN TRUE
       ELSE ChunkCount(writer.heap, Len(writer.heap)) < MaxChunks
    /\ IF h = 0 THEN TRUE ELSE Lt64(SecOf(h).Offset, U64(MaxOffset))
    /\ LET sec == IF h = 0 THEN <<>> ELSE SecOf(h)
           chk == NewChunk(Payload, size, align)
           r == elfw_section_append_data(sec, h = 0, Payload, dataNull, size, align, mem,
                                         trap, IF garbage THEN StackGarbage ELSE chk)
       IN  /\ writer' = WithSec(h, r.sec)
           /\ WriterCall("elfw_section_append_data",
                         [section |-> h, dataNull |-> dataNull, size |-> size,
                          align |-> align, mem |-> mem],
                         r.res, <<>>)

ElfwSectionSetData(h, dataNull, size, align, mem, trap, garbage, trapFree) ==
    /\ pc = "idle"
    /\ LET sec == IF h = 0 THEN <<>> ELSE SecOf(h)
           chk == NewChunk(Payload, size, align)
           r == elfw_section_set_data(sec, h = 0, Payload, dataNull, size, align, mem,
                                      trap, IF garbage THEN StackGarbage ELSE chk,
                                      trapFree)
       IN  /\ writer' = WithSec(h, r.sec)
           /\ WriterCall("elfw_section_set_data",
                         [section |-> h, dataNull |-> dataNull, size |-> size,
                          align |-> align, mem |-> mem],
                         r.res, <<>>)

ElfwSectionNextOffset(h, align) ==
    /\ pc = "idle"
    /\ h # 0
    /\ writer' = writer
    /\ WriterCall("elfw_section_next_offset", [section |-> h, align |-> align],
                  ELF_OK, elfw_section_next_offset(SecOf(h), align))

\* The program serialises the context, initialises a reader of its own over
\* the bytes and reads the section count and every section header back.
RoundTripRead(c, n) ==
    [count |-> get_section_count(c, FALSE),
     secs |-> [i \in 1..n |-> get_section_header(c, FALSE, i, SomeSecHeader, FALSE)]]

RoundTrip ==
    /\ pc = "idle"
    /\ IF writer.null THEN FALSE ELSE writer.Head.set
    /\ writer' = writer
    /\ LET r == elf_init([bytes |-> Serialise(writer)], file_read_cb, SomeCtx, FALSE)
       IN  WriterCall("round_trip", <<>>, r.res,
                      RoundTripRead(r.ctx, Len(writer.Sections.data)))

WriterInit ==
    /\ host = ELFDATA2LSB
    /\ ctx = SomeCtx
    /\ inits = 0
    /\ pc = "idle"
    /\ last = NoCall
    /\ writer = NoWriter

\* The allocations of a call with n of them: all succeed, or one fails.
Mems(n) == { [i \in 1..n |-> TRUE] } \cup { [i \in 1..n |-> i # k] : k \in 1..n }
AllMem(n) == [i \in 1..n |-> TRUE]

WriterNext ==
    \/ \E mem \in BOOLEAN : ElfwCreate(mem)
    \/ \E info \in HeaderInfos, mem \in BOOLEAN : ElfwCreateHeader(info, mem)
    \/ \E info \in SecInfos : ElfwAddSection(info, FALSE, AllMem(3))
    \/ \E mem \in Mems(3) \ {AllMem(3)} :
          ElfwAddSection(SecInfo(".three", SHT_PROGBITS, 0, 0, 3, 0), FALSE, mem)
    \/ ElfwAddSection(<<>>, TRUE, AllMem(3))
    \/ \E h \in Handles \ {0}, size \in ChunkSizes, align \in ChunkAligns,
          mem \in Mems(2), trap \in BOOLEAN, garbage \in BOOLEAN :
          ElfwSectionAppendData(h, FALSE, size, align, mem, trap, garbage)
    \/ \E h \in Handles :
          ElfwSectionAppendData(h, h # 0, U64(13), U64(4), AllMem(2), FALSE, FALSE)
    \/ \E h \in Handles \ {0}, align \in {Zero64, U64(3)} :
          ElfwSectionAppendData(h, FALSE, U64(13), align, AllMem(2), FALSE, FALSE)
    \/ \E h \in Handles \ {0}, size \in ChunkSizes, align \in ChunkAligns,
          mem \in Mems(2), trap \in BOOLEAN, garbage \in BOOLEAN, trapFree \in BOOLEAN :
          ElfwSectionSetData(h, FALSE, size, align, mem, trap, garbage, trapFree)
    \/ \E h \in Handles, trapFree \in BOOLEAN :
          ElfwSectionSetData(h, h # 0, U64(13), U64(4), AllMem(2), FALSE, FALSE, trapFree)
    \/ \E h \in Handles, align \in ChunkAligns \cup {Zero64, U64(3)} :
          ElfwSectionNextOffset(h, align)
    \/ RoundTrip
    \/ Return

WriterSpec == WriterInit /\ [][WriterNext]_vars

----------------------------------------------------------------------------
(* The claims of the specification, on the calls of the program.           *)

\* The call that has just returned is a call of op.
Returned(op) == pc = "returned" /\ last.op = op

\* The call that has just returned is an elf_init on the caller's context with a
\* callback.
InitReturned ==
    Returned("elf_init") /\ ~last.arg.ctxNull /\ last.arg.callback # NULL

\* C1: after an elf_init on the context, the context is initialised if and only
\* if that elf_init returned ELF_OK; an elf_init that returns anything else
\* leaves the context uninitialised.
C1_InitialisedIffOk ==
    (Returned("elf_init") /\ ~last.arg.ctxNull)
        => (ctx.initialized <=> last.res = ELF_OK)

\* The rules the specification lists for a header h: magic, version, class, byte
\* order, header size, entry sizes where the count is not 0, and a table with
\* entries has an offset.
HeaderRulesHold(h) ==
    /\ h.magic4 = 70
    /\ h.ei_version = EV_CURRENT /\ h.e_version = EV_CURRENT
    /\ h.ei_class \in Classes
    /\ h.ei_data \in Datas
    /\ h.e_ehsize = HeadSize(h.ei_class)
    /\ h.e_phnum # 0 => h.e_phentsize = ProSize(h.ei_class)
    /\ h.e_shnum # 0 => h.e_shentsize = SecSize(h.ei_class)
    /\ h.e_phnum # 0 => h.e_phoff # 0
    /\ h.e_shnum # 0 => h.e_shoff # 0

\* Both fetches of the header are within the file f.
HeaderFetchesSucceed(f) ==
    /\ Len(Image[f]) >= EI_NIDENT
    /\ HeaderOf(f).ei_class \in Classes => Len(Image[f]) >= HeadSize(HeaderOf(f).ei_class)

\* C2: for a file whose header fetches succeed, elf_init returns ELF_OK if and
\* only if the header satisfies the rules the specification lists.
C2_InitOkIffHeaderRules ==
    (InitReturned /\ HeaderFetchesSucceed(last.arg.file))
        => (last.res = ELF_OK <=> HeaderRulesHold(HeaderOf(last.arg.file)))

\* The arguments of the reader call that has just returned are valid: no pointer
\* is NULL, a buffer has room, a table index is not 0, a symbol table has entries.
ValidArgs ==
    CASE last.op = "get_header" -> ~last.arg.ctxNull /\ ~last.arg.headerNull
      [] last.op = "get_section_header" -> ~last.arg.ctxNull /\ ~last.arg.secNull
      [] last.op = "get_program_header" -> ~last.arg.ctxNull
      [] last.op \in {"get_section_name", "get_str_from_table"} ->
            last.arg.nulls = NoNull(Len(last.arg.nulls)) /\ last.arg.len > 0
      [] last.op = "get_symbol_name" ->
            last.arg.nulls = NoNull(3) /\ last.arg.len > 0 /\ last.arg.str_tab_idx # 0
      [] last.op \in {"get_section_by_name", "get_symbol_entry"} ->
            last.arg.nulls = NoNull(3)
      [] last.op \in {"get_symbol_by_addr_exact", "get_symbol_by_addr_range",
                      "get_symbol_by_name"} ->
            /\ last.arg.nulls = NoNull(Len(last.arg.nulls))
            /\ last.arg.sym_tab.Size # Zero64 /\ last.arg.sym_tab.EntrySize # Zero64
      [] OTHER -> FALSE

\* C3: a reader call on an uninitialised context with valid arguments returns
\* ELF_UNINIT.
C3_UninitReturnsUninit ==
    (pc = "returned" /\ ~ctx.initialized /\ ValidArgs) => last.res = ELF_UNINIT

\* The file asks for the extended numbering: its count of sections is 0 with a
\* section-header offset, or its name-table index is SHN_XINDEX.
Extended(h) ==
    (h.e_shnum = 0 /\ h.e_shoff # 0) \/ h.e_shstrndx = SHN_XINDEX

\* C5: for a header that satisfies the rules and asks for the extended
\* numbering, elf_init fetches entry 0 of the section headers; when its type is
\* NULL it returns ELF_OK with the count taken from its Size (when the header's
\* count is 0) and the name-table index from its Link (when the header's is
\* SHN_XINDEX); when its type is not NULL it returns ELF_BAD_FORMAT.
C5_ExtendedNumbering ==
    (/\ InitReturned
     /\ last.arg.file.cut = 0
     /\ HeaderRulesHold(HeaderOf(last.arg.file))
     /\ Extended(HeaderOf(last.arg.file)))
        => LET f == last.arg.file
               h == HeaderOf(f)
               sec0 == SecsOf(f)[1]
           IN  /\ \E i \in 1..Len(last.fetches) :
                     /\ last.fetches[i].offset = U64(h.e_shoff)
                     /\ last.fetches[i].size = SecSize(f.cls)
               /\ IF sec0.type = SHT_NULL
                  THEN /\ last.res = ELF_OK
                       /\ ctx.Hdr.SHEntryNum =
                             (IF h.e_shnum = 0 THEN sec0.size ELSE h.e_shnum)
                       /\ ctx.Hdr.SecStrIndx =
                             (IF h.e_shstrndx = SHN_XINDEX THEN sec0.link
                              ELSE h.e_shstrndx)
                  ELSE last.res = ELF_BAD_FORMAT

\* The record of a fetch lies within the file of the context.
Within(fetch) ==
    /\ fetch.offset[8] < 128 /\ Small64(fetch.offset)
    /\ Val(fetch.offset) + fetch.size <= Len(Image[ctx.UserCtx])

\* The call that has just returned is get_section_header on the initialised
\* context, no pointer NULL.
SectionHeaderReturned ==
    /\ Returned("get_section_header") /\ ctx.initialized
    /\ ~last.arg.ctxNull /\ ~last.arg.secNull

\* C4, as the specification states it: on an initialised context
\* get_section_header(ctx, i) returns ELF_OK for every i below the section count
\* and ELF_BAD_INDX for every other i.
C4_SectionHeaderByIndex ==
    SectionHeaderReturned
        => IF last.arg.idx < get_section_count(ctx, FALSE)
           THEN last.res = ELF_OK
           ELSE last.res = ELF_BAD_INDX

\* C4, amended: for i below the section count get_section_header fetches the
\* record at SecHeadOff + i * SHEntrySize and returns ELF_OK unless the fetch
\* fails (then the callback's error) or the decoded record breaks a per-type
\* rule (then ELF_BAD_SIZE or ELF_BAD_FORMAT); for every other i it returns
\* ELF_BAD_INDX and fetches nothing.
C4_SectionHeaderByIndexChecked ==
    SectionHeaderReturned
        => IF last.arg.idx < get_section_count(ctx, FALSE)
           THEN /\ Len(last.fetches) = 1
                /\ last.fetches[1].offset =
                      Add64(ctx.Hdr.SecHeadOff, U64(last.arg.idx * ctx.Hdr.SHEntrySize))
                /\ IF ~Within(last.fetches[1])
                   THEN last.res \in {ELF_IO_EOF, ELF_IO_ERROR}
                   ELSE /\ last.res \in {ELF_OK, ELF_BAD_SIZE, ELF_BAD_FORMAT}
                        /\ last.res = ELF_OK <=> SecHeaderCheck(ctx, last.out) = ELF_OK
           ELSE last.res = ELF_BAD_INDX /\ last.fetches = <<>>

\* C4 happens: the last entry of a table of several is returned.
C4_Witness ==
    /\ SectionHeaderReturned
    /\ last.arg.idx > 0 /\ last.arg.idx + 1 = get_section_count(ctx, FALSE)
    /\ last.res = ELF_OK /\ last.out.Type = SHT_STRTAB

\* C4 refuted as stated: an entry below the count that is not returned.
C4_Rejected ==
    /\ SectionHeaderReturned
    /\ last.arg.idx < get_section_count(ctx, FALSE)
    /\ last.res = ELF_BAD_SIZE

\* The first position from lo on where the bytes img hold a zero; 0 when no
\* position up to hi does.
FirstZero(img, lo, hi) ==
    LET z == { j \in lo..hi : img[j] = 0 }
    IN  IF z = {} THEN 0 ELSE CHOOSE j \in z : \A k \in z : j <= k

\* The call that has just returned is get_str_from_table on the initialised
\* context, with a buffer, for a string that starts inside a STRTAB section of
\* the file and ends inside it.
StrInTable ==
    /\ Returned("get_str_from_table") /\ ctx.initialized
    /\ last.arg.nulls = NoNull(2) /\ last.arg.len > 0
    /\ LET r == get_section_header(ctx, FALSE, last.arg.sec_idx, SomeSecHeader, FALSE)
           img == Image[ctx.UserCtx]
       IN  /\ r.res = ELF_OK /\ r.out.Type = SHT_STRTAB
           /\ Small64(r.out.Offset) /\ Small64(r.out.Size)
           /\ Val(r.out.Offset) + Val(r.out.Size) <= Len(img)
           /\ last.arg.str_idx < Val(r.out.Size)
           /\ FirstZero(img, Val(r.out.Offset) + last.arg.str_idx + 1,
                        Val(r.out.Offset) + Val(r.out.Size)) # 0

\* The string get_str_from_table was asked for, without its terminator.
StrAsked ==
    LET r == get_section_header(ctx, FALSE, last.arg.sec_idx, SomeSecHeader, FALSE)
        img == Image[ctx.UserCtx]
        lo == Val(r.out.Offset) + last.arg.str_idx + 1
    IN  SubSeq(img, lo, FirstZero(img, lo, Val(r.out.Offset) + Val(r.out.Size)) - 1)

\* C6: for a string s that starts and ends inside a STRTAB section,
\* get_str_from_table returns ELF_OK if and only if len > length(s), and then
\* the buffer holds the bytes of s and the terminator.
C6_StrOkIffFits ==
    StrInTable
        => /\ last.res = ELF_OK <=> last.arg.len > Len(StrAsked)
           /\ last.res = ELF_OK
                 => SubSeq(last.out, 1, Len(StrAsked) + 1) = Append(StrAsked, 0)

\* The call that has just returned is a string fetch that stored len bytes, none
\* of them zero, every fetch of a byte having succeeded.
ConsumedLen ==
    /\ pc = "returned"
    /\ last.op \in {"get_str_from_table", "get_section_name", "get_symbol_name"}
    /\ last.arg.len > 0
    /\ last.res \notin {ELF_IO_EOF, ELF_IO_ERROR}
    /\ Len(SelectSeq(last.fetches, LAMBDA f : f.size = 1)) = last.arg.len
    /\ \A i \in 1..last.arg.len : last.out[i] # 0

\* C7: a string fetch that consumed len bytes without a zero byte returns
\* ELF_BUFFER_OVERFLOW, whatever the byte after the buffer is.
C7_OverflowWhateverBeyond ==
    ConsumedLen => last.res = ELF_BUFFER_OVERFLOW

\* The bytes of a buffer up to its first zero byte, the zero included.
StrOf(buf) == SubSeq(buf, 1, FirstZero(buf, 1, Len(buf)))

\* The call that has just returned is the search op on the initialised context,
\* no pointer NULL.
SearchReturned(op) ==
    /\ Returned(op) /\ ctx.initialized
    /\ last.arg.nulls = NoNull(Len(last.arg.nulls))

\* Entry k of the symbol table a search was given, as get_symbol_entry gives it,
\* and its name, as get_symbol_name gives it.
EntryAt(k) == get_symbol_entry(ctx, FALSE, last.arg.sym_tab, FALSE, k, SomeSym, FALSE)
NameAt(k) ==
    get_symbol_name(ctx, FALSE, last.arg.sym_tab.Link, EntryAt(k).out, FALSE,
                    SomeNameBuf, FALSE, NameBufLen)

\* Entry k of the section headers, as get_section_header gives it, and its name,
\* as get_section_name gives it.
SectionAt(k) == get_section_header(ctx, FALSE, k, SomeSecHeader, FALSE)
SectionNameAt(k) ==
    get_section_name(ctx, FALSE, SectionAt(k).out, FALSE, SomeNameBuf, FALSE, NameBufLen)

\* Entry k can be read, and satisfies the match condition of the search that has
\* just returned.
Readable(k) ==
    CASE last.op = "get_section_by_name" ->
            SectionAt(k).res = ELF_OK /\ SectionNameAt(k).res = ELF_OK
      [] last.op = "get_symbol_by_name" ->
            EntryAt(k).res = ELF_OK /\ NameAt(k).res = ELF_OK
      [] OTHER -> EntryAt(k).res = ELF_OK

Matches(k) ==
    /\ Readable(k)
    /\ CASE last.op = "get_section_by_name" -> StrOf(SectionNameAt(k).out) = last.arg.name
         [] last.op = "get_symbol_by_name" -> StrOf(NameAt(k).out) = last.arg.name
         [] last.op = "get_symbol_by_addr_exact" ->
               /\ EntryAt(k).out.SecIdx # SHN_UNDEF
               /\ EntryAt(k).out.Type \in {STT_FUNC, STT_OBJECT}
               /\ EntryAt(k).out.Value = last.arg.addr
         [] last.op = "get_symbol_by_addr_range" ->
               /\ EntryAt(k).out.SecIdx # SHN_UNDEF
               /\ Ge64(last.arg.addr, EntryAt(k).out.Value)
               /\ Lt64(last.arg.addr, Add64(EntryAt(k).out.Value, EntryAt(k).out.Size))

\* The entry a search returns.
Found(k) ==
    IF last.op = "get_section_by_name" THEN SectionAt(k).out ELSE EntryAt(k).out

\* The number of entries of the table that was searched, entry 0 included.
SearchCount ==
    IF last.op = "get_section_by_name" THEN get_section_count(ctx, FALSE)
    ELSE get_symbol_count(ctx, FALSE, last.arg.sym_tab, FALSE)

\* The fetches of entries a search made, in the order it made them.  A search by
\* section name fetches the header of the name table after each entry.
EntryFetches ==
    CASE last.op = "get_section_by_name" ->
            LET hs == SelectSeq(last.fetches, LAMBDA f : f.size = SecSize(ctx.Class))
            IN  [i \in 1..((Len(hs) + 1) \div 2) |-> hs[2 * i - 1]]
      [] OTHER -> SelectSeq(last.fetches, LAMBDA f : f.size = SymSize(ctx.Class))

\* Where entry k of the table that was searched lies in the file.
EntryOffset(k) ==
    IF last.op = "get_section_by_name"
    THEN Add64(ctx.Hdr.SecHeadOff, U64(k * ctx.Hdr.SHEntrySize))
    ELSE Add64(last.arg.sym_tab.Offset, Mul64(k, last.arg.sym_tab.EntrySize))

Searches ==
    {"get_section_by_name", "get_symbol_by_addr_exact", "get_symbol_by_addr_range",
     "get_symbol_by_name"}

\* C8: a search that returns ELF_OK returns the entry at the smallest index >= 1
\* that satisfies its match condition, having fetched the entries 1, 2, ... up to
\* it in this order; a search whose entries from 1 on can all be read and match
\* nothing returns ELF_NOT_FOUND, and one that returns ELF_NOT_FOUND found no
\* match.
C8_SmallestMatchingIndex ==
    \A op \in Searches :
        SearchReturned(op)
            => /\ \A i \in 1..Len(EntryFetches) : EntryFetches[i].offset = EntryOffset(i)
               /\ last.res = ELF_OK
                     => \E k \in 1..(SearchCount - 1) :
                           /\ Matches(k)
                           /\ \A j \in 1..(k - 1) : ~Matches(j)
                           /\ last.out = Found(k)
                           /\ Len(EntryFetches) = k
               /\ last.res = ELF_NOT_FOUND
                     => \A k \in 1..(SearchCount - 1) : ~Matches(k)
               /\ (/\ SearchCount > 0
                   /\ \A k \in 1..(SearchCount - 1) : Readable(k) /\ ~Matches(k))
                     => last.res = ELF_NOT_FOUND

\* C8 happens: a search by name returns entry 2 of a table whose entry 1 does
\* not match, and a search by address does.
C8_Witness ==
    /\ \E op \in {"get_symbol_by_name", "get_symbol_by_addr_range"} : SearchReturned(op)
    /\ last.res = ELF_OK
    /\ ~Matches(1) /\ Matches(2) /\ last.out = Found(2)
    /\ Found(1) # Found(2)

\* The symbols of the file f that own the address a in a search by range: those
\* that are defined and have V <= a < V + N on the integers, whatever their type.
RangeOwners(f, a) ==
    { k \in 1..Len(f.syms) :
        /\ f.syms[k].shndx # SHN_UNDEF
        /\ Ge64(a, f.syms[k].value)
        /\ Lt64(Sub64(a, f.syms[k].value), f.syms[k].size) }

\* The symbols of the file f that a search for the exact address a may return:
\* those that are defined, are a function or an object, and have the value a.
ExactOwners(f, a) ==
    { k \in 1..Len(f.syms) :
        /\ f.syms[k].shndx # SHN_UNDEF
        /\ f.syms[k].type \in {STT_FUNC, STT_OBJECT}
        /\ f.syms[k].value = a }

Least(set) == CHOOSE k \in set : \A j \in set : k <= j

\* The call that has just returned is a search by address, on a context
\* initialised over the file it reads, with the .symtab of the file.
AddrSearchOnFile(op) ==
    /\ SearchReturned(op)
    /\ ctx.UserCtx.cut = 0
    /\ ctx.Class = ctx.UserCtx.cls /\ ctx.Endianness = ctx.UserCtx.dat
    /\ last.arg.sym_tab = SecArg(ctx.UserCtx, 2)
    /\ last.arg.sym_tab.EntrySize = U64(SymSize(ctx.UserCtx.cls))

\* C9: get_symbol_by_addr_range returns the first symbol of the table that is
\* defined and has V <= addr < V + N, whatever its type, so that addr = V and
\* addr = V + N - 1 match a symbol of size N > 0, addr = V + N does not, and a
\* symbol of size 0 never matches; with no such symbol it returns ELF_NOT_FOUND.
C9_RangeBoundaries ==
    AddrSearchOnFile("get_symbol_by_addr_range")
        => LET owners == RangeOwners(ctx.UserCtx, last.arg.addr)
           IN  IF owners = {} THEN last.res = ELF_NOT_FOUND
               ELSE /\ last.res = ELF_OK
                    /\ last.out = SymArg(ctx.UserCtx, Least(owners))

C11_ExactFirstUntyped ==
    AddrSearchOnFile("get_symbol_by_addr_exact")
        => LET f == ctx.UserCtx
               owners == { k \in 1..Len(f.syms) :
                             f.syms[k].shndx # SHN_UNDEF /\ f.syms[k].value = last.arg.addr }
           IN  IF owners = {} THEN last.res = ELF_NOT_FOUND
               ELSE last.res = ELF_OK /\ last.out = SymArg(f, Least(owners))

\* C12: on an initialised context get_program_header(ctx, idx) with idx at or
\* above the program-header count returns ELF_BAD_INDX.
C12_ProgramHeaderBadIndx ==
    (/\ Returned("get_program_header") /\ ctx.initialized /\ ~last.arg.ctxNull
     /\ last.arg.idx >= get_program_header_count(ctx, FALSE))
        => last.res = ELF_BAD_INDX

\* The entry size the class of the context fixes for the sections of type t.
FixedEntrySize(t) ==
    LET c32 == ctx.Class = ELFCLASS32
    IN  CASE t = SHT_REL -> IF c32 THEN SizeofElf32Rel ELSE SizeofElf64Rel
          [] t = SHT_RELA -> IF c32 THEN SizeofElf32Rela ELSE SizeofElf64Rela
          [] t = SHT_RELR -> IF c32 THEN SizeofElf32Relr ELSE SizeofElf64Relr
          [] OTHER -> IF c32 THEN SizeofElf32SymEntry ELSE SizeofElf64SymEntry

\* C13: get_section_header returns ELF_OK only with a record that keeps the
\* per-type rules: a REL, RELA, RELR, SYMTAB or DYNSYM section has the entry size
\* of its class, a COMPRESSED section is neither ALLOC nor NOBITS, and a GROUP
\* section lies in a relocatable file.
C13_OkOnlyValidRecord ==
    (SectionHeaderReturned /\ last.res = ELF_OK)
        => /\ last.out.Type \in {SHT_REL, SHT_RELA, SHT_RELR, SHT_SYMTAB, SHT_DYNSYM}
                 => last.out.EntrySize = U64(FixedEntrySize(last.out.Type))
           /\ HasFlag(last.out.Flags, SHF_COMPRESSED)
                 => /\ ~HasFlag(last.out.Flags, SHF_ALLOC)
                    /\ last.out.Type # SHT_NOBITS
           /\ last.out.Type = SHT_GROUP => HeaderOf(ctx.UserCtx).e_type = ET_REL

\* C13 happens: a GROUP section of a relocatable file and a RELA section with
\* the entry size of its class are returned.
C13_Witness ==
    /\ SectionHeaderReturned /\ last.res = ELF_OK
    /\ \/ last.out.Type = SHT_GROUP
       \/ last.out.Type = SHT_RELA

\* The callback fails on the fetch over the file f.
FetchFails(f, fetch) == Callback(f, fetch.offset, fetch.size).res # ELF_OK

\* C14: a call during which the callback returns an error makes no fetch after
\* it and returns the callback's error, and it leaves the initialised flag and
\* the cached header of the context as they were.
C14_CallbackErrorPropagates ==
    [][(/\ pc' = "returned"
        /\ \E i \in 1..Len(last'.fetches) : FetchFails(ctx'.UserCtx, last'.fetches[i]))
          => /\ \A i \in 1..(Len(last'.fetches) - 1) :
                    ~FetchFails(ctx'.UserCtx, last'.fetches[i])
             /\ last'.res = Callback(ctx'.UserCtx,
                                     last'.fetches[Len(last'.fetches)].offset,
                                     last'.fetches[Len(last'.fetches)].size).res
             /\ ctx'.initialized = ctx.initialized
             /\ ctx'.Hdr = ctx.Hdr]_vars

\* C15: on an initialised context a call of an accessor, whether it succeeds or
\* fails, leaves the context as it was, and a get_header that succeeds returns
\* the cached header, so that repeated calls return equal headers.
C15_AccessorsKeepContext ==
    [][(ctx.initialized /\ pc' = "returned" /\ last'.op # "elf_init")
          => /\ ctx' = ctx
             /\ (last'.op = "get_header" /\ last'.res = ELF_OK) => last'.out = ctx.Hdr]_vars

\* C15 happens: get_header returns the cached header after other accessors
\* were called on the initialised context.
C15_Witness ==
    /\ Returned("get_header") /\ ctx.initialized
    /\ last.res = ELF_OK /\ last.out = ctx.Hdr
    /\ last.out.SHEntryNum = Len(SecsOf(ctx.UserCtx))

\* The validation rules of a section description, given the header the
\* context holds.
PowerOfTwo(a) == a # Zero64 /\ And64(a, Sub64(a, U64(1))) = Zero64
TypeRulesHold(info, head) ==
    /\ info.Type = SHT_NULL => info.Address = Zero64 /\ info.EntrySize = Zero64
    /\ info.Type = SHT_STRTAB => info.EntrySize \in {Zero64, U64(1)}
    /\ (info.Type \in {SHT_SYMTAB, SHT_DYNSYM} /\ head.set)
          => info.EntrySize = U64(IF head.EI_Class = ELFCLASS32
                                  THEN SizeofElf32SymEntry ELSE SizeofElf64SymEntry)
ValidDescription(info, head) ==
    /\ PowerOfTwo(info.Alignment)
    /\ Mod64(info.Address, info.Alignment) = Zero64
    /\ info.Address # Zero64 => HasFlag(info.Flags, SHF_ALLOC)
    /\ Mod64(info.EntrySize, info.Alignment) = Zero64
    /\ TypeRulesHold(info, head)

\* The section behind the handle h of the writer context w was built from info
\* and is the last of the sections of w.
Added(w, h, info) ==
    /\ h = Len(w.heap) /\ h > 0
    /\ w.heap[h] = NewSection(info)
    /\ Len(w.Sections.data) > 0
    /\ w.Sections.data[Len(w.Sections.data)] = h

\* C16: elfw_add_section on a context, every allocation succeeding, returns OK
\* and adds the section when the description satisfies the validation rules, and
\* returns BAD_ARG and leaves the context as it was when it does not; .text
\* (PROGBITS, alignment 4) and .shstrtab (STRTAB, alignment 1) are accepted.
C16_AddSectionIffValid ==
    (/\ Returned("elfw_add_section") /\ ~last.before.null /\ ~last.arg.infoNull
     /\ last.arg.mem = AllMem(3))
      => IF ValidDescription(last.arg.info, last.before.Head)
         THEN /\ last.res = ELF_OK
              /\ Added(writer, last.out, last.arg.info)
              /\ Len(writer.heap) = Len(last.before.heap) + 1
         ELSE last.res = ELF_BAD_ARG /\ writer = last.before

\* The section a call on a section handle was given, before and after it.
SecBefore == last.before.heap[last.arg.section]
SecAfter == writer.heap[last.arg.section]
OnSection(op) == Returned(op) /\ last.arg.section # 0

\* (offset + align - 1) & ~(align - 1)
AlignedUp(offset, align) ==
    And64(Sub64(Add64(offset, align), U64(1)), Not64(Sub64(align, U64(1))))

\* C17: an elfw_section_append_data(section, data, size, align) that returns OK
\* with size > 0 has appended one chunk holding data, size and align to the end
\* of the chunk list of the section and set the running offset to o + size, o
\* being (old offset + align - 1) & ~(align - 1); with size 0 it has left the
\* chunk list and the running offset as they were.
C17_AppendRecordsChunk ==
    (OnSection("elfw_section_append_data") /\ last.res = ELF_OK)
      => IF last.arg.size # Zero64
         THEN /\ SecAfter.Chunks.data =
                    Append(SecBefore.Chunks.data,
                           NewChunk(Payload, last.arg.size, last.arg.align))
              /\ SecAfter.Offset =
                    Add64(AlignedUp(SecBefore.Offset, last.arg.align), last.arg.size)
         ELSE /\ SecAfter.Chunks.data = SecBefore.Chunks.data
              /\ SecAfter.Offset = SecBefore.Offset

\* The chunk list and the running offset of every section the context held
\* before the call are what they were.
SectionsKept ==
    IF last.before.null THEN writer = last.before
    ELSE \A h \in 1..Len(last.before.heap) :
            /\ writer.heap[h].Chunks.data = last.before.heap[h].Chunks.data
            /\ writer.heap[h].Offset = last.before.heap[h].Offset

WriterOps ==
    { "elfw_create_header", "elfw_add_section", "elfw_section_append_data",
      "elfw_section_set_data" }

\* C18: a writer call that returns a result other than OK, elfw_section_set_data
\* with a NULL data pointer among them, has left the chunk list and the running
\* offset of the section as they were; and after elfw_section_append_data
\* returns, whatever allocation failed in it, either one chunk was added and the
\* running offset advanced, or the chunk list and the offset are as they were.
C18_FailedCallsChangeNothing ==
    (pc = "returned" /\ last.op \in WriterOps)
      => /\ last.res # ELF_OK => SectionsKept
         /\ OnSection("elfw_section_append_data")
              => \/ /\ Len(SecAfter.Chunks.data) = Len(SecBefore.Chunks.data) + 1
                    /\ SecAfter.Offset # SecBefore.Offset
                 \/ /\ SecAfter.Chunks.data = SecBefore.Chunks.data
                    /\ SecAfter.Offset = SecBefore.Offset

\* x is a multiple of a.
Multiple(x, a) == IF a = Zero64 THEN x = Zero64 ELSE Mod64(x, a) = Zero64

\* x is the smallest multiple of a that is not below offset.
SmallestMultipleFrom(x, a, offset) ==
    /\ Multiple(x, a)
    /\ Ge64(x, offset)
    /\ \A k \in Val(offset)..(Val(x) - 1) : ~Multiple(U64(k), a)

Declared(i) == last.before.heap[last.before.Sections.data[i]]

\* The decoded section header h matches the declared section sec: type, flags,
\* address, alignment, entry size, and for the size what the chunks handed to the
\* section add up to with their padding, its running offset.
MatchesDeclared(h, sec) ==
    /\ h.Type = sec.Type /\ h.Flags = sec.Flags /\ h.Address = sec.StartAddr
    /\ h.Alignment = sec.Align /\ h.EntrySize = sec.EntrySize
    /\ h.Size = sec.Offset

\* C20: serialising a writer context with n sections and no segments and
\* initialising a reader over the bytes gives a reader whose section count is
\* n + 1 and whose section header i, for each i in 1..n, decodes and matches
\* the type, flags, address, alignment, entry size and size of section i of
\* the writer.
C20_RoundTrip ==
    Returned("round_trip")
      => /\ last.res = ELF_OK
         /\ last.out.count = Len(last.before.Sections.data) + 1
         /\ \A i \in 1..Len(last.before.Sections.data) :
              /\ last.out.secs[i].res = ELF_OK
              /\ MatchesDeclared(last.out.secs[i].out, Declared(i))

\* C21: the header elfw_create_header builds for a class carries the header
\* size, program-header entry size and section-header entry size of that class,
\* the values elf_init requires of a header of that class.
C21_HeaderSizesOfClass ==
    (Returned("elfw_create_header") /\ last.res = ELF_OK)
      => /\ writer.Head.EI_Class = last.arg.info.Class
         /\ writer.Head.HeadSize = HeadSize(writer.Head.EI_Class)
         /\ writer.Head.PHEntrySize = ProSize(writer.Head.EI_Class)
         /\ writer.Head.SHEntrySize = SecSize(writer.Head.EI_Class)

\* C22: get_section_name(ctx, sec, buf, len) returns the result and the buffer
\* content of get_str_from_table(ctx, SecStrIndx, sec.NameIdx, buf, len), SecStrIndx
\* being the cached index of the section-name table: it fails when that section
\* is not of type STRTAB or when sec.NameIdx is not below its size.
C22_SectionNameAsStrFromTable ==
    (Returned("get_section_name") /\ last.arg.nulls = NoNull(3))
      => /\ last.res = get_str_from_table(ctx, FALSE, ctx.Hdr.SecStrIndx,
                                          last.arg.sec.NameIdx,
                                          Buf(last.arg.len, last.arg.beyond), FALSE,
                                          last.arg.len).res
         /\ last.out = get_str_from_table(ctx, FALSE, ctx.Hdr.SecStrIndx,
                                          last.arg.sec.NameIdx,
                                          Buf(last.arg.len, last.arg.beyond), FALSE,
                                          last.arg.len).out

\* Two fetches ask for a byte in common.
Overlap(f, g) ==
    /\ f.size > 0 /\ g.size > 0
    /\ Lt64(f.offset, Add64(g.offset, U64(g.size)))
    /\ Lt64(g.offset, Add64(f.offset, U64(f.size)))

\* C23: within one call of the reader, elf_init and the linear searches among
\* them, no two fetches ask for overlapping byte ranges.
C23_NoOverlappingFetches ==
    pc = "returned"
      => \A i, j \in 1..Len(last.fetches) :
            i < j => ~Overlap(last.fetches[i], last.fetches[j])

\* The bytes of a field, least significant first, when the file declares the
\* endianness e.
AsDeclared(data, e) == IF e = ELFDATA2MSB THEN Reverse(data) ELSE data

\* The bytes of a field as the host holds them, swapped exactly when the
\* declared endianness e is not NONE and differs from the host's.
SwappedWhenForeign(data, e) ==
    IF e # ELFDATANONE /\ e # host THEN Reverse(Load(data)) ELSE Load(data)

\* C24: the 16/32/64-bit field readers return the value whose bytes, in the
\* declared endianness of the file, are the bytes fetched; they swap exactly
\* when the file endianness is not NONE and differs from the host endianness;
\* and swapping twice gives the value back.
C24_FieldReaders ==
    /\ Returned("read_16")
         => /\ last.out = Val(SwappedWhenForeign(last.arg.data, last.arg.elf_endianness))
            /\ last.arg.elf_endianness # ELFDATANONE
                 => last.out = Val(AsDeclared(last.arg.data, last.arg.elf_endianness))
            /\ swap16(swap16(last.out)) = last.out
    /\ (Returned("read_32") \/ Returned("read_64"))
         => /\ last.out = SwappedWhenForeign(last.arg.data, last.arg.elf_endianness)
            /\ last.arg.elf_endianness # ELFDATANONE
                 => last.out = AsDeclared(last.arg.data, last.arg.elf_endianness)
    /\ Returned("read_32") => swap32(swap32(last.out)) = last.out
    /\ Returned("read_64") => swap64(swap64(last.out)) = last.out

\* C24 happens: on a little-endian host the big-endian 64-bit field
\* 00 00 00 00 00 00 00 40 is read as 64.
C24_Witness ==
    /\ Returned("read_64") /\ host = ELFDATA2LSB
    /\ last.arg.elf_endianness = ELFDATA2MSB
    /\ last.arg.data = <<0, 0, 0, 0, 0, 0, 0, 64>>
    /\ Val(last.out) = 64

\* C25: decoding the SLEB128 encoding of a signed 64-bit number v, of any
\* length up to the 10 bytes 64 bits take, returns OK with val = v and the
\* number of bytes consumed; DECODE_ERROR is returned only of an encoding whose
\* shift count passes 63 before its last byte.
C25_SLEB128Decodes ==
    Returned("decode_SLEB128")
      => IF last.arg.n <= 10
         THEN /\ last.res = DWRF_OK
              /\ last.out.val = last.arg.v
              /\ last.out.len = last.arg.n
         ELSE last.res = DWRF_DECODE_ERR

\* C26: every fetch of a call asks for no more bytes than the buffer it names
\* holds, and get_program_header asks for exactly the size of a program header
\* of the file's class.
C26_FetchFitsBuffer ==
    pc = "returned" =>
      /\ \A i \in 1..Len(last.fetches) : last.fetches[i].size <= last.fetches[i].cap
      /\ last.op = "get_program_header" =>
           \A i \in 1..Len(last.fetches) :
              last.fetches[i].size = IF ctx.Class = ELFCLASS32 THEN SizeofElf32ProHeader
                                     ELSE SizeofElf64ProHeader

\* C27: a string fetch reads and writes only the positions 0..len-1 of the
\* caller's buffer: what get_str_from_table returns, result and buffer, is the
\* same whatever byte lies at position len, after the buffer.
C27_StrWithinBuffer ==
    (Returned("get_str_from_table") /\ last.arg.nulls = NoNull(2))
      => \A beyond \in Beyonds :
            LET r == get_str_from_table(ctx, FALSE, last.arg.sec_idx, last.arg.str_idx,
                                        Buf(last.arg.len, beyond), FALSE, last.arg.len)
            IN  r.res = last.res /\ r.out = last.out

\* The symbols of the file f that are defined and whose range, from their value
\* over their size, passes 2^64 - 1 and has the address a at or above its value.
WrappingOwners(f, a) ==
    { k \in 1..Len(f.syms) :
        /\ f.syms[k].shndx # SHN_UNDEF
        /\ Lt64(Add64(f.syms[k].value, f.syms[k].size), f.syms[k].value)
        /\ Ge64(a, f.syms[k].value) }

\* C28: get_symbol_by_addr_range compares without wrapping: a defined symbol
\* whose value + size exceeds 2^64 - 1 matches every address at or above its
\* value, so a search for such an address finds a symbol.
C28_RangeWithoutWrap ==
    (AddrSearchOnFile("get_symbol_by_addr_range")
       /\ WrappingOwners(ctx.UserCtx, last.arg.addr) # {})
      => last.res = ELF_OK

\* The context is as a successful elf_init over its file leaves it.
InitialisedOverFile ==
    LET r == elf_init(ctx.UserCtx, ctx.Callback, ctx, FALSE)
    IN  ctx.initialized /\ r.res = ELF_OK /\ r.ctx = ctx

\* C29: after a successful elf_init, get_header gives the class and the byte
\* order of the file's identification, the version 1 and the flags of the
\* file's header, whatever the context held before.
C29_HeaderIdentAndFlags ==
    (Returned("get_header") /\ last.res = ELF_OK /\ InitialisedOverFile)
      => LET h == HeaderOf(ctx.UserCtx)
         IN  /\ last.out.EI_Class = h.ei_class
             /\ last.out.EI_Data = h.ei_data
             /\ last.out.EI_Version = EV_CURRENT
             /\ last.out.Flags = h.e_flags

\* C30: the running offset of a section never decreases under
\* elfw_section_append_data: whatever align is, 0 and the numbers that are not
\* powers of two included, an append of size > 0 that returns ELF_OK leaves the
\* running offset at the old one plus size or above.
C30_OffsetNeverDecreases ==
    (OnSection("elfw_section_append_data") /\ ~last.arg.dataNull
       /\ last.arg.size # Zero64 /\ last.res = ELF_OK)
      => Ge64(SecAfter.Offset, Add64(SecBefore.Offset, last.arg.size))

====
